---- MODULE Spec2Model ----
(***************************************************************************)
(* Model of robbyriverside/project: a scaffolding CLI.  Strings of the Go  *)
(* program are sequences of one-character strings, so that the strings     *)
(* package calls (HasPrefix, TrimSuffix, Split, TrimSpace, Replace ...) and *)
(* the path/filepath calls (Clean, Join, Abs) are computed as the code      *)
(* computes them.                                                          *)
(***************************************************************************)
EXTENDS Integers, Sequences, FiniteSets, TLC

\* ------------------------------------------------------------------------
\* Bounds of the model
\* ------------------------------------------------------------------------
\* longest free-form body of a gen-command argument (characters)
MaxBodyLen == 5
\* longest org / repo name used for the GitHub URL forms (characters)
MaxNameLen == 2

\* ------------------------------------------------------------------------
\* Go "strings" package on character sequences
\* ------------------------------------------------------------------------
SLASH == <<"/">>
GitSuffix == <<".","g","i","t">>
HttpsScheme == <<"h","t","t","p","s",":","/","/">>
HttpsGithub == <<"h","t","t","p","s",":","/","/","g","i","t","h","u","b",".","c","o","m","/">>
GitAt == <<"g","i","t","@">>
GitAtGithub == <<"g","i","t","@","g","i","t","h","u","b",".","c","o","m",":">>
HttpsGitlab == <<"h","t","t","p","s",":","/","/","g","i","t","l","a","b",".","c","o","m","/">>
GitAtGitlab == <<"g","i","t","@","g","i","t","l","a","b",".","c","o","m",":">>
GithubHost == <<"g","i","t","h","u","b",".","c","o","m">>

\* unicode.IsSpace restricted to the characters the model uses
IsSpace(c) == c \in {" ", "\t", "\n"}

HasPrefix(s, p) == Len(s) >= Len(p) /\ SubSeq(s, 1, Len(p)) = p

HasSuffix(s, p) == Len(s) >= Len(p) /\ SubSeq(s, Len(s) - Len(p) + 1, Len(s)) = p

TrimPrefix(s, p) == IF HasPrefix(s, p) THEN SubSeq(s, Len(p) + 1, Len(s)) ELSE s

TrimSuffix(s, p) == IF HasSuffix(s, p) THEN SubSeq(s, 1, Len(s) - Len(p)) ELSE s

\* strings.Index: 1-based position of the first occurrence of sub, 0 if none
RECURSIVE IndexFrom(_, _, _)
IndexFrom(s, sub, i) ==
  IF i + Len(sub) - 1 > Len(s) THEN 0
  ELSE IF SubSeq(s, i, i + Len(sub) - 1) = sub THEN i
  ELSE IndexFrom(s, sub, i + 1)

Index(s, sub) == IndexFrom(s, sub, 1)

Contains(s, sub) == Index(s, sub) # 0

\* strings.Replace(s, old, new, 1)
ReplaceFirst(s, old, new) ==
  LET i == Index(s, old)
  IN  IF i = 0 THEN s
      ELSE SubSeq(s, 1, i - 1) \o new \o SubSeq(s, i + Len(old), Len(s))

\* strings.ReplaceAll(s, old, new) for non-empty old: leftmost, non-overlapping
RECURSIVE ReplaceAll(_, _, _)
ReplaceAll(s, old, new) ==
  LET i == Index(s, old)
  IN  IF i = 0 THEN s
      ELSE SubSeq(s, 1, i - 1) \o new \o ReplaceAll(SubSeq(s, i + Len(old), Len(s)), old, new)

\* strings.Split(s, sep) for a one-character sep; Split("", sep) = [""]
RECURSIVE Split(_, _)
Split(s, sep) ==
  LET i == Index(s, sep)
  IN  IF i = 0 THEN <<s>>
      ELSE <<SubSeq(s, 1, i - 1)>> \o Split(SubSeq(s, i + Len(sep), Len(s)), sep)

\* strings.SplitN(s, sep, 2)
SplitN2(s, sep) ==
  LET i == Index(s, sep)
  IN  IF i = 0 THEN <<s>>
      ELSE <<SubSeq(s, 1, i - 1), SubSeq(s, i + Len(sep), Len(s))>>

RECURSIVE JoinWith(_, _)
JoinWith(parts, sep) ==
  IF parts = <<>> THEN <<>>
  ELSE IF Len(parts) = 1 THEN parts[1]
  ELSE parts[1] \o sep \o JoinWith(Tail(parts), sep)

RECURSIVE TrimLeftSpace(_)
TrimLeftSpace(s) ==
  IF s # <<>> /\ IsSpace(s[1]) THEN TrimLeftSpace(Tail(s)) ELSE s

RECURSIVE TrimRightSpace(_)
TrimRightSpace(s) ==
  IF s # <<>> /\ IsSpace(s[Len(s)]) THEN TrimRightSpace(SubSeq(s, 1, Len(s) - 1)) ELSE s

TrimSpace(s) == TrimRightSpace(TrimLeftSpace(s))

LastOf(parts) == parts[Len(parts)]

\* all sequences over alphabet A of length at most n
RECURSIVE SeqsUpTo(_, _)
SeqsUpTo(A, n) ==
  IF n = 0 THEN {<<>>}
  ELSE LET shorter == SeqsUpTo(A, n - 1)
       IN  shorter \cup {Append(s, a) : s \in {t \in shorter : Len(t) = n - 1}, a \in A}

\* ------------------------------------------------------------------------
\* URL/module-name derivation: cmd/project/main.go and project.go
\* ------------------------------------------------------------------------
NoResult == [ok |-> FALSE, err |-> "none", moduleURL |-> <<>>, repoName |-> <<>>,
             projectName |-> <<>>, homeDir |-> <<>>]

\* variant of NormalizeURL: the HTTPS branch trims the host together with the scheme
NormalizeURL_DropsHost(gitURL) ==
  LET afterHttps == IF HasPrefix(gitURL, HttpsGithub)
                    THEN TrimPrefix(gitURL, HttpsGithub) ELSE gitURL
      afterSSH   == IF HasPrefix(gitURL, GitAtGithub)
                    THEN ReplaceFirst(TrimPrefix(gitURL, GitAt), <<":">>, SLASH)
                    ELSE afterHttps
  IN  TrimSuffix(afterSSH, GitSuffix)

\* variant of NormalizeURL: the scheme is stripped from every https URL
NormalizeURL_AnyHttps(gitURL) ==
  LET afterHttps == IF HasPrefix(gitURL, HttpsScheme)
                    THEN TrimPrefix(gitURL, HttpsScheme) ELSE gitURL
      afterSSH   == IF HasPrefix(gitURL, GitAtGithub)
                    THEN ReplaceFirst(TrimPrefix(gitURL, GitAt), <<":">>, SLASH)
                    ELSE afterHttps
  IN  TrimSuffix(afterSSH, GitSuffix)

\* GenCommand.Execute, lines 111-126: the URL to module-URL normalisation
NormalizeURL(gitURL) ==
  LET afterHttps == IF HasPrefix(gitURL, HttpsGithub)
                    THEN TrimPrefix(gitURL, HttpsScheme) ELSE gitURL
      afterSSH   == IF HasPrefix(gitURL, GitAtGithub)
                    THEN ReplaceFirst(TrimPrefix(gitURL, GitAt), <<":">>, SLASH)
                    ELSE afterHttps
  IN  TrimSuffix(afterSSH, GitSuffix)

\* variant of ValidModuleURL: two segments are accepted
ValidModuleURL_TwoSegments(moduleURL) == Len(Split(moduleURL, SLASH)) >= 2

\* GenCommand.Execute, lines 129-134: the segment-count check
ValidModuleURL(moduleURL) == Len(Split(moduleURL, SLASH)) >= 3

\* GenCommand.Execute, line 131
RepoName(moduleURL) == LastOf(Split(moduleURL, SLASH))

\* variant of ProjectNameOf: the first segment is taken instead of the last
ProjectNameOf_FirstSegment(moduleURL) == Head(Split(TrimSpace(moduleURL), SLASH))

\* NewGenConfig, lines 30-31
ProjectNameOf(moduleURL) == LastOf(Split(TrimSpace(moduleURL), SLASH))

\* NewGenConfig, lines 26-39
NewGenConfig(moduleURL, outDir) ==
  [ModuleURL   |-> moduleURL,
   ProjectName |-> ProjectNameOf(moduleURL),
   OutputDir   |-> IF outDir = <<>> THEN <<".">> ELSE outDir,
   HomeDir     |-> <<"~", "/">> \o ProjectNameOf(moduleURL)]

\* the derivation seen from the gen command: Execute's normalisation and check,
\* then the name NewGenConfig derives from the module URL
DeriveModule(gitURL) ==
  LET moduleURL == NormalizeURL(gitURL)
  IN  IF ValidModuleURL(moduleURL)
      THEN [ok |-> TRUE, err |-> "none", moduleURL |-> moduleURL,
            repoName |-> RepoName(moduleURL),
            projectName |-> NewGenConfig(moduleURL, <<>>).ProjectName,
            homeDir |-> NewGenConfig(moduleURL, <<>>).HomeDir]
      ELSE [NoResult EXCEPT !.err = "invalid GitHub URL format"]

\* ------------------------------------------------------------------------
\* Go "path/filepath" package (Unix) on character sequences
\* ------------------------------------------------------------------------
\* working directory of the process
Cwd == <<"/", "w">>

IsAbs(p) == HasPrefix(p, SLASH)

\* the lexical element stack filepath.Clean keeps while scanning a path
RECURSIVE CleanStack(_, _, _)
CleanStack(segs, stack, rooted) ==
  IF segs = <<>> THEN stack
  ELSE LET s == Head(segs)
       IN  IF s = <<>> \/ s = <<".">> THEN CleanStack(Tail(segs), stack, rooted)
           ELSE IF s = <<".", ".">>
             THEN IF stack # <<>> /\ LastOf(stack) # <<".", ".">>
                    THEN CleanStack(Tail(segs), SubSeq(stack, 1, Len(stack) - 1), rooted)
                  ELSE IF rooted THEN CleanStack(Tail(segs), stack, rooted)
                  ELSE CleanStack(Tail(segs), Append(stack, s), rooted)
           ELSE CleanStack(Tail(segs), Append(stack, s), rooted)

\* filepath.Clean
Clean(p) ==
  LET rooted == IsAbs(p)
      body   == JoinWith(CleanStack(Split(p, SLASH), <<>>, rooted), SLASH)
      out    == IF rooted THEN SLASH \o body ELSE body
  IN  IF out = <<>> THEN <<".">> ELSE out

\* filepath.Join: empty elements are ignored, the result is cleaned
Join(elems) ==
  LET nonEmpty == SelectSeq(elems, LAMBDA e : e # <<>>)
  IN  IF nonEmpty = <<>> THEN <<>> ELSE Clean(JoinWith(nonEmpty, SLASH))

\* filepath.Abs with the working directory Cwd
Abs(p) == IF IsAbs(p) THEN Clean(p) ELSE Join(<<Cwd, p>>)

\* position of the last "/" in p, 0 if none
LastSlash(p) ==
  LET hits == {i \in 1..Len(p) : p[i] = "/"}
  IN  IF hits = {} THEN 0 ELSE CHOOSE i \in hits : \A j \in hits : j <= i

\* filepath.Dir
Dir(p) == Clean(SubSeq(p, 1, LastSlash(p)))

\* a cleaned absolute directory together with all its ancestors
RECURSIVE WithAncestors(_)
WithAncestors(d) == IF d = SLASH \/ ~IsAbs(d) THEN {d} ELSE {d} \cup WithAncestors(Dir(d))

\* ------------------------------------------------------------------------
\* The file system the generator writes to: files maps a path to its
\* content, ds is the set of directories
\* ------------------------------------------------------------------------
\* os.MkdirAll succeeds unless the path is empty or a component is an existing file
MkdirAllOK(files, ds, d) == d # <<>> /\ WithAncestors(Abs(d)) \cap DOMAIN files = {}

MkdirAll(ds, d) == ds \cup WithAncestors(Abs(d))

\* os.WriteFile succeeds when the parent directory exists and the path is no directory
WriteFileOK(files, ds, p) == Abs(p) \notin ds /\ Dir(Abs(p)) \in ds

WriteFile(files, p, data) ==
  [q \in DOMAIN files \cup {Abs(p)} |-> IF q = Abs(p) THEN data ELSE files[q]]

\* ------------------------------------------------------------------------
\* Templates (templates/*.tmpl): the placeholders of each template in order,
\* with the literal text between them abbreviated
\* ------------------------------------------------------------------------
\* main.tmpl, lines 10-12, 58, 62, 70, 123, 138
MainTmpl ==
  <<[lit |-> <<"M"," ","\"">>, field |-> ""],
    [lit |-> <<>>, field |-> "ModuleURL"],
    [lit |-> <<"/","c","o","n","f","i","g","\""," ","\"">>, field |-> ""],
    [lit |-> <<>>, field |-> "ModuleURL"],
    [lit |-> <<"/","l","o","g","s","\""," ","\"">>, field |-> ""],
    [lit |-> <<>>, field |-> "ModuleURL"],
    [lit |-> <<"\""," ">>, field |-> ""],
    [lit |-> <<>>, field |-> "ProjectName"],
    [lit |-> <<" ">>, field |-> ""],
    [lit |-> <<>>, field |-> "ProjectName"],
    [lit |-> <<" ">>, field |-> ""],
    [lit |-> <<>>, field |-> "ProjectName"],
    [lit |-> <<" ">>, field |-> ""],
    [lit |-> <<>>, field |-> "ProjectName"],
    [lit |-> <<" ">>, field |-> ""],
    [lit |-> <<>>, field |-> "ProjectName"],
    [lit |-> <<".","A","b","o","u","t","(",")">>, field |-> ""]>>
\* config.tmpl, lines 23, 28, 29, 34, 36, 58
ConfigTmpl ==
  <<[lit |-> <<"C"," ">>, field |-> ""],
    [lit |-> <<>>, field |-> "ProjectName"],
    [lit |-> <<" ","~","/","d","e","v","/">>, field |-> ""],
    [lit |-> <<>>, field |-> "ProjectName"],
    [lit |-> <<" ","d","e","f","a","u","l","t","=","~","/","d","e","v","/">>, field |-> ""],
    [lit |-> <<>>, field |-> "ProjectName"],
    [lit |-> <<" ","~","/","d","e","v","/">>, field |-> ""],
    [lit |-> <<>>, field |-> "ProjectName"],
    [lit |-> <<" ","~","/","d","e","v","/">>, field |-> ""],
    [lit |-> <<>>, field |-> "ProjectName"],
    [lit |-> <<" ",".","c","o","n","f","i","g","/">>, field |-> ""],
    [lit |-> <<>>, field |-> "ProjectName"]>>
\* logs.tmpl, line 28
LogsTmpl ==
  <<[lit |-> <<"L"," ","A","p","p","N","a","m","e",":"," ","\"">>, field |-> ""],
    [lit |-> <<>>, field |-> "ProjectName"],
    [lit |-> <<"\"">>, field |-> ""]>>
\* taskfile.tmpl (the APP, MAIN and OUT variables and the task commands)
TaskfileTmpl ==
  <<[lit |-> <<"A","P","P",":"," ">>, field |-> ""],
    [lit |-> <<>>, field |-> "ProjectName"],
    [lit |-> <<" ","M","A","I","N",":"," ",".","/","c","m","d","/">>, field |-> ""],
    [lit |-> <<>>, field |-> "ProjectName"],
    [lit |-> <<" ","O","U","T",":"," ","b","i","n","/">>, field |-> ""],
    [lit |-> <<>>, field |-> "ProjectName"],
    [lit |-> <<" ","V","A","R",":","O","U","T"," ","V","A","R",":","M","A","I","N"," ","V","A","R",":","C","L","I","_","A","R","G","S">>, field |-> ""]>>
\* project.tmpl: the package clause of the generated project-root source file
ProjectTmpl ==
  <<[lit |-> <<"p","a","c","k","a","g","e"," ">>, field |-> ""],
    [lit |-> <<>>, field |-> "ProjectName"]>>

\* the logical file names of GenerateAll, line 79
MainType == <<"m","a","i","n">>
ConfigType == <<"c","o","n","f","i","g">>
LogsType == <<"l","o","g","s">>
ProjectType == <<"p","r","o","j","e","c","t">>
TaskfileType == <<"t","a","s","k","f","i","l","e">>

\* readTemplate, lines 55-71: the embedded template <fileType>.tmpl
TemplateOf(fileType) ==
  CASE fileType = MainType     -> MainTmpl
    [] fileType = ConfigType   -> ConfigTmpl
    [] fileType = LogsType     -> LogsTmpl
    [] fileType = TaskfileType -> TaskfileTmpl
    [] fileType = ProjectType  -> ProjectTmpl

\* variant of Execute: the placeholders render as nothing
RECURSIVE Execute_EmptyFields(_, _)
Execute_EmptyFields(tmpl, data) ==
  IF tmpl = <<>> THEN <<>>
  ELSE (IF Head(tmpl).field = "" THEN Head(tmpl).lit ELSE <<>>)
         \o Execute_EmptyFields(Tail(tmpl), data)

\* text/template Execute: every referenced field must exist on the data record
ExecuteOK(tmpl, data) ==
  \A i \in 1..Len(tmpl) : tmpl[i].field = "" \/ tmpl[i].field \in DOMAIN data

\* text/template Execute, as GenerateFile calls it (lines 118-121)
RECURSIVE Execute(_, _)
Execute(tmpl, data) ==
  IF tmpl = <<>> THEN <<>>
  ELSE (IF Head(tmpl).field = "" THEN Head(tmpl).lit ELSE data[Head(tmpl).field])
         \o Execute(Tail(tmpl), data)

\* ------------------------------------------------------------------------
\* Generator (project.go)
\* ------------------------------------------------------------------------
MainGo == <<"m","a","i","n",".","g","o">>
CmdDir == <<"c","m","d">>
ConfigDir == <<"c","o","n","f","i","g">>
ConfigGo == <<"c","o","n","f","i","g",".","g","o">>
LogsDir == <<"l","o","g","s">>
LogsGo == <<"l","o","g","s",".","g","o">>
TaskfileYaml == <<"T","a","s","k","f","i","l","e",".","y","a","m","l">>
DotGo == <<".","g","o">>
GoMod == <<"g","o",".","m","o","d">>
ReplaceOpen == <<"r","e","p","l","a","c","e"," ","(">>
ReplaceHead == <<"\n","\n","r","e","p","l","a","c","e"," ","(","\n","\t">>
ReplaceSelf == <<" ","=",">"," ",".","\n","\t">>
ReplaceConfig == <<"/","c","o","n","f","i","g"," ","=",">"," ",".","/","c","o","n","f","i","g","\n","\t">>
ReplaceLogs == <<"/","l","o","g","s"," ","=",">"," ",".","/","l","o","g","s","\n",")","\n">>
ModuleKw == <<"m","o","d","u","l","e"," ">>
GoVersionLine == <<"\n","\n","g","o"," ","1",".","2","4","\n">>
Replacements ==
  <<[old |-> <<"{","{",".","T","a","s","k",".","G","e","t"," ","\"","V","E","R","S","I","O","N","\"","}","}">>,
      new |-> <<"{","{",".","V","E","R","S","I","O","N","}","}">>],
    [old |-> <<"{","{",".","T","a","s","k",".","G","e","t"," ","\"","C","O","M","M","I","T","\"","}","}">>,
      new |-> <<"{","{",".","C","O","M","M","I","T","}","}">>],
    [old |-> <<"{","{",".","T","a","s","k",".","G","e","t"," ","\"","B","U","I","L","D","T","I","M","E","\"","}","}">>,
      new |-> <<"{","{",".","B","U","I","L","D","T","I","M","E","}","}">>],
    [old |-> <<"{","{",".","T","a","s","k",".","G","e","t"," ","\"","M","A","I","N","\"","}","}">>,
      new |-> <<"{","{",".","M","A","I","N","}","}">>],
    [old |-> <<"{","{",".","T","a","s","k",".","G","e","t"," ","\"","C","L","I","_","A","R","G","S","\"","}","}">>,
      new |-> <<"{","{",".","C","L","I","_","A","R","G","S","}","}">>],
    [old |-> <<"{","{",".","T","a","s","k",".","G","e","t"," ","\"","O","U","T","\"","}","}">>,
      new |-> <<"{","{",".","O","U","T","}","}">>],
    [old |-> <<"{","{",".","T","a","s","k",".","G","e","t"," ","\"","L","D","F","L","A","G","S","\"","}","}">>,
      new |-> <<"{","{",".","L","D","F","L","A","G","S","}","}">>],
    [old |-> <<"{","{",".","T","a","s","k",".","G","e","t"," ","\"","A","P","P","\"","}","}">>,
      new |-> <<"{","{",".","A","P","P","}","}">>]>>

\* GenerateAll, line 79
FileTypes == <<MainType, ConfigType, LogsType, ProjectType, TaskfileType>>

\* outcomes of the environment a step can meet
FileFaults == {"none", "missing", "malformed", "badfield", "mkdir", "write"}

\* GenConfig.ProjectPath, lines 42-48
ProjectPath(gc) == Abs(gc.OutputDir)

\* variant of filePath: the task file is written as Taskfile.yml
filePath_TaskfileYml(gc, fileType) ==
  CASE fileType = MainType     -> Join(<<ProjectPath(gc), CmdDir, gc.ProjectName, MainGo>>)
    [] fileType = ConfigType   -> Join(<<ProjectPath(gc), ConfigDir, ConfigGo>>)
    [] fileType = LogsType     -> Join(<<ProjectPath(gc), LogsDir, LogsGo>>)
    [] fileType = TaskfileType -> Join(<<ProjectPath(gc), <<"T","a","s","k","f","i","l","e",".","y","m","l">>>>)
    [] fileType = ProjectType  -> Join(<<ProjectPath(gc), gc.ProjectName \o DotGo>>)
    [] OTHER                   -> Join(<<ProjectPath(gc), fileType \o DotGo>>)

\* variant of filePath: the project-root source file is written into the config directory
filePath_ProjectInConfig(gc, fileType) ==
  CASE fileType = MainType     -> Join(<<ProjectPath(gc), CmdDir, gc.ProjectName, MainGo>>)
    [] fileType = ConfigType   -> Join(<<ProjectPath(gc), ConfigDir, ConfigGo>>)
    [] fileType = LogsType     -> Join(<<ProjectPath(gc), LogsDir, LogsGo>>)
    [] fileType = TaskfileType -> Join(<<ProjectPath(gc), TaskfileYaml>>)
    [] fileType = ProjectType  -> Join(<<ProjectPath(gc), ConfigDir, gc.ProjectName \o DotGo>>)
    [] OTHER                   -> Join(<<ProjectPath(gc), fileType \o DotGo>>)

\* Generator.filePath, lines 135-152
filePath(gc, fileType) ==
  CASE fileType = MainType     -> Join(<<ProjectPath(gc), CmdDir, gc.ProjectName, MainGo>>)
    [] fileType = ConfigType   -> Join(<<ProjectPath(gc), ConfigDir, ConfigGo>>)
    [] fileType = LogsType     -> Join(<<ProjectPath(gc), LogsDir, LogsGo>>)
    [] fileType = TaskfileType -> Join(<<ProjectPath(gc), TaskfileYaml>>)
    [] fileType = ProjectType  -> Join(<<ProjectPath(gc), gc.ProjectName \o DotGo>>)
    [] OTHER                   -> Join(<<ProjectPath(gc), fileType \o DotGo>>)

\* variant of GenerateFile: a file that exists already is left as it is
GenerateFile_KeepsExisting(files, ds, gc, fileType, fault) ==
  IF fault \in {"missing", "malformed"}
    THEN [err |-> "read template", files |-> files, ds |-> ds]
  ELSE IF fault = "badfield" \/ ~ExecuteOK(TemplateOf(fileType), gc)
    THEN [err |-> "execute template", files |-> files, ds |-> ds]
  ELSE LET destPath == filePath(gc, fileType)
           buf      == Execute(TemplateOf(fileType), gc)
       IN  IF fault = "mkdir" \/ ~MkdirAllOK(files, ds, Dir(destPath))
             THEN [err |-> "mkdir", files |-> files, ds |-> ds]
           ELSE IF fault = "write" \/ ~WriteFileOK(files, MkdirAll(ds, Dir(destPath)), destPath)
             THEN [err |-> "write file", files |-> files, ds |-> MkdirAll(ds, Dir(destPath))]
           ELSE [err |-> "none",
                 files |-> IF destPath \in DOMAIN files THEN files
                           ELSE WriteFile(files, destPath, buf),
                 ds |-> MkdirAll(ds, Dir(destPath))]

\* variant of GenerateFile: the destination directory is made before the template is executed
GenerateFile_MkdirFirst(files, ds, gc, fileType, fault) ==
  IF fault \in {"missing", "malformed"}
    THEN [err |-> "read template", files |-> files, ds |-> ds]
  ELSE LET destPath == filePath(gc, fileType)
           buf      == Execute(TemplateOf(fileType), gc)
       IN  IF fault = "mkdir" \/ ~MkdirAllOK(files, ds, Dir(destPath))
             THEN [err |-> "mkdir", files |-> files, ds |-> ds]
           ELSE IF fault = "badfield" \/ ~ExecuteOK(TemplateOf(fileType), gc)
             THEN [err |-> "execute template", files |-> files,
                   ds |-> MkdirAll(ds, Dir(destPath))]
           ELSE IF fault = "write" \/ ~WriteFileOK(files, MkdirAll(ds, Dir(destPath)), destPath)
             THEN [err |-> "write file", files |-> files, ds |-> MkdirAll(ds, Dir(destPath))]
           ELSE [err |-> "none", files |-> WriteFile(files, destPath, buf),
                 ds |-> MkdirAll(ds, Dir(destPath))]

\* Generator.GenerateFile, lines 107-132
GenerateFile(files, ds, gc, fileType, fault) ==
  IF fault \in {"missing", "malformed"}
    THEN [err |-> "read template", files |-> files, ds |-> ds]
  ELSE IF fault = "badfield" \/ ~ExecuteOK(TemplateOf(fileType), gc)
    THEN [err |-> "execute template", files |-> files, ds |-> ds]
  ELSE LET destPath == filePath(gc, fileType)
           buf      == Execute(TemplateOf(fileType), gc)
       IN  IF fault = "mkdir" \/ ~MkdirAllOK(files, ds, Dir(destPath))
             THEN [err |-> "mkdir", files |-> files, ds |-> ds]
           ELSE IF fault = "write" \/ ~WriteFileOK(files, MkdirAll(ds, Dir(destPath)), destPath)
             THEN [err |-> "write file", files |-> files, ds |-> MkdirAll(ds, Dir(destPath))]
           ELSE [err |-> "none", files |-> WriteFile(files, destPath, buf),
                 ds |-> MkdirAll(ds, Dir(destPath))]

\* variant of ApplyReplacements: only the first occurrence of each reference is rewritten
RECURSIVE ApplyReplacements_FirstOnly(_, _)
ApplyReplacements_FirstOnly(content, rs) ==
  IF rs = <<>> THEN content
  ELSE ApplyReplacements_FirstOnly(ReplaceFirst(content, Head(rs).old, Head(rs).new), Tail(rs))

\* postProcessTaskfile, lines 174-177: the replacements applied in order
RECURSIVE ApplyReplacements(_, _)
ApplyReplacements(content, rs) ==
  IF rs = <<>> THEN content
  ELSE ApplyReplacements(ReplaceAll(content, Head(rs).old, Head(rs).new), Tail(rs))

\* variant of postProcessTaskfile: a task file that cannot be rewritten is removed
postProcessTaskfile_RemovesOnError(files, ds, gc, fault) ==
  LET taskfilePath == Join(<<ProjectPath(gc), TaskfileYaml>>)
  IN  IF fault = "read" \/ taskfilePath \notin DOMAIN files
        THEN [err |-> "read Taskfile", files |-> files]
      ELSE IF fault = "write" \/ ~WriteFileOK(files, ds, taskfilePath)
        THEN [err |-> "write Taskfile",
              files |-> [p \in DOMAIN files \ {taskfilePath} |-> files[p]]]
      ELSE [err |-> "none",
            files |-> WriteFile(files, taskfilePath,
                                ApplyReplacements(files[taskfilePath], Replacements))]

\* Generator.postProcessTaskfile, lines 155-184
postProcessTaskfile(files, ds, gc, fault) ==
  LET taskfilePath == Join(<<ProjectPath(gc), TaskfileYaml>>)
  IN  IF fault = "read" \/ taskfilePath \notin DOMAIN files
        THEN [err |-> "read Taskfile", files |-> files]
      ELSE IF fault = "write" \/ ~WriteFileOK(files, ds, taskfilePath)
        THEN [err |-> "write Taskfile", files |-> files]
      ELSE [err |-> "none",
            files |-> WriteFile(files, taskfilePath,
                                ApplyReplacements(files[taskfilePath], Replacements))]

\* what "go mod init <moduleURL>" leaves in a fresh go.mod
GoModInit(moduleURL) == ModuleKw \o moduleURL \o GoVersionLine

\* Generator.InitMod, lines 187-208
InitMod(files, ds, gc, fault) ==
  LET modPath == Join(<<ProjectPath(gc), GoMod>>)
  IN  IF fault = "stat"
        THEN [err |-> "check for go.mod", files |-> files, ran |-> FALSE]
      ELSE IF modPath \in DOMAIN files
        THEN [err |-> "none", files |-> files, ran |-> FALSE]
      ELSE IF fault = "exec" \/ ~WriteFileOK(files, ds, modPath)
        THEN [err |-> "run go mod init", files |-> files, ran |-> TRUE]
      ELSE [err |-> "none", files |-> WriteFile(files, modPath, GoModInit(gc.ModuleURL)),
            ran |-> TRUE]

\* Generator.addReplaceDirectives, lines 221-228: the block to append
ReplaceBlock(moduleURL) ==
  ReplaceHead \o moduleURL \o ReplaceSelf \o moduleURL \o ReplaceConfig
    \o moduleURL \o ReplaceLogs

\* variant of addReplaceDirectives: the block is appended without looking for
\* "replace (" first
addReplaceDirectives_Always(files, ds, gc, fault) ==
  LET modPath == Join(<<ProjectPath(gc), GoMod>>)
  IN  IF fault = "read" \/ modPath \notin DOMAIN files
        THEN [err |-> "read go.mod", files |-> files]
      ELSE IF fault = "write" \/ ~WriteFileOK(files, ds, modPath)
        THEN [err |-> "write go.mod", files |-> files]
      ELSE [err |-> "none",
            files |-> WriteFile(files, modPath, files[modPath] \o ReplaceBlock(gc.ModuleURL))]

\* Generator.addReplaceDirectives, lines 211-238
addReplaceDirectives(files, ds, gc, fault) ==
  LET modPath == Join(<<ProjectPath(gc), GoMod>>)
  IN  IF fault = "read" \/ modPath \notin DOMAIN files
        THEN [err |-> "read go.mod", files |-> files]
      ELSE IF Contains(files[modPath], ReplaceOpen)
        THEN [err |-> "none", files |-> files]
      ELSE IF fault = "write" \/ ~WriteFileOK(files, ds, modPath)
        THEN [err |-> "write go.mod", files |-> files]
      ELSE [err |-> "none",
            files |-> WriteFile(files, modPath, files[modPath] \o ReplaceBlock(gc.ModuleURL))]

\* variant of ModTidy: the exit status of the command is not returned
ModTidy_IgnoresExit(fault) == IF fault = "exec" THEN "none" ELSE "none"

\* Generator.ModTidy, lines 241-248: the exit status of "go mod tidy"
ModTidy(fault) == IF fault = "exec" THEN "go mod tidy" ELSE "none"

\* the checksum file a successful "go mod tidy" writes next to go.mod: the
\* rendered sources import modules outside the project (main.tmpl line 8,
\* logs.tmpl lines 15-16, config.tmpl line 20).  The require lines it adds to
\* go.mod are left out; the module line and the replace block stay as they are
GoSum == <<"g","o",".","s","u","m">>
GoSumContent == <<"h","1">>
TidyFiles(files, ds, gc) ==
  LET sumPath == Join(<<ProjectPath(gc), GoSum>>)
  IN  IF WriteFileOK(files, ds, sumPath)
        THEN WriteFile(files, sumPath, GoSumContent)
        ELSE files

\* ------------------------------------------------------------------------
\* Config record and reflection accessor (config/config.go)
\* ------------------------------------------------------------------------
\* Config, lines 28-32: the fields in declaration order with their struct tags
Fields ==
  <<[name |-> "HomeDir", yaml |-> "home",
     config |-> <<"d","e","s","c","=","B","a","s","e"," ","d","i","r","e","c","t","o","r","y"," ","f","o","r"," ","s","t","o","r","i","n","g"," ","d","a","t","a",",","d","e","f","a","u","l","t","=","~","/","m","y","a","p","p">>],
    [name |-> "Author", yaml |-> "author",
     config |-> <<"d","e","s","c","=","D","e","f","a","u","l","t"," ","a","u","t","h","o","r"," ","n","a","m","e"," ","f","o","r"," ","n","e","w"," ","i","t","e","m","s">>],
    [name |-> "LogFmt", yaml |-> "log_fmt",
     config |-> <<"d","e","s","c","=","L","o","g"," ","o","u","t","p","u","t"," ","f","o","r","m","a","t"," ","(","j","s","o","n",","," ","f","o","r","m","a","t","t","e","d",","," ","t","e","x","t",")",",","d","e","f","a","u","l","t","=","j","s","o","n">>]>>

DeclaredKeys == {Fields[i].yaml : i \in 1..Len(Fields)}

\* the user name the operating system reports (os/user.Current)
OSUserName == <<"u">>
UnknownAuthor == <<"u","n","k","n","o","w","n">>

\* fallbackAuthor, lines 42-51, in an environment where the user lookup succeeds
fallbackAuthor == IF OSUserName # <<>> THEN OSUserName ELSE UnknownAuthor

\* defaultConfig, lines 35-39
defaultConfig ==
  [HomeDir |-> <<"~","/","m","y","a","p","p">>, LogFmt |-> <<"j","s","o","n">>, Author |-> fallbackAuthor]

\* the zero Config value
ZeroConfig == [HomeDir |-> <<>>, LogFmt |-> <<>>, Author |-> <<>>]

\* --- gopkg.in/yaml.v3 as the config package uses it --------------------------
\* a document is a sequence of entries [key, style, text]; style is "plain" or
\* "quoted".  A plain scalar that reads as the YAML null has no string value.
NullForms == {<<>>, <<"~">>, <<"n","u","l","l">>}

IsNull(entry) == entry.style = "plain" /\ entry.text \in NullForms

\* the encoder quotes a string that would not read back as itself when plain
NeedsQuote(v) == v \in NullForms \/ (v # <<>> /\ (IsSpace(v[1]) \/ IsSpace(v[Len(v)])))

EncodeScalar(v) == [style |-> IF NeedsQuote(v) THEN "quoted" ELSE "plain", text |-> v]

\* variant of Marshal: a field holding the empty string is left out of the document
Marshal_OmitEmpty(cfg) ==
  LET all == [i \in 1..Len(Fields) |->
                [key |-> Fields[i].yaml] @@ EncodeScalar(cfg[Fields[i].name])]
      NonEmpty(e) == e.text # <<>>
  IN  SelectSeq(all, NonEmpty)

\* yaml.Marshal(cfg): one entry per field, in declaration order
Marshal(cfg) ==
  [i \in 1..Len(Fields) |->
     [key |-> Fields[i].yaml] @@ EncodeScalar(cfg[Fields[i].name])]

\* yaml.Unmarshal(data, &cfg): entries are applied in order; a key without a
\* field is ignored; a null leaves the field as it is
RECURSIVE Unmarshal(_, _)
Unmarshal(entries, cfg) ==
  IF entries = <<>> THEN cfg
  ELSE LET e == Head(entries)
           hit == {i \in 1..Len(Fields) : Fields[i].yaml = e.key}
       IN  IF hit = {} \/ IsNull(e) THEN Unmarshal(Tail(entries), cfg)
           ELSE Unmarshal(Tail(entries),
                          [cfg EXCEPT ![Fields[CHOOSE i \in hit : TRUE].name] = e.text])

\* --- the stored config file ---------------------------------------------------
NoFile == [kind |-> "absent", entries |-> <<>>]
CorruptFile == [kind |-> "corrupt", entries |-> <<>>]
YamlFile(entries) == [kind |-> "yaml", entries |-> entries]

\* variant of Load: the record is not pre-populated with the defaults
Load_FromZero(file, fault) ==
  IF fault = "read" THEN [err |-> "failed to read config", cfg |-> ZeroConfig]
  ELSE IF file.kind = "absent" THEN [err |-> "none", cfg |-> ZeroConfig]
  ELSE IF file.kind = "corrupt" THEN [err |-> "failed to parse config", cfg |-> ZeroConfig]
  ELSE [err |-> "none", cfg |-> Unmarshal(file.entries, ZeroConfig)]

\* Load, lines 63-81
Load(file, fault) ==
  IF fault = "read" THEN [err |-> "failed to read config", cfg |-> ZeroConfig]
  ELSE IF file.kind = "absent" THEN [err |-> "none", cfg |-> defaultConfig]
  ELSE IF file.kind = "corrupt" THEN [err |-> "failed to parse config", cfg |-> ZeroConfig]
  ELSE [err |-> "none", cfg |-> Unmarshal(file.entries, defaultConfig)]

\* Save, lines 84-99
Save(file, cfg, fault) ==
  IF fault = "mkdir" THEN [err |-> "failed to make config dir", file |-> file]
  ELSE IF fault = "write" THEN [err |-> "failed to write config", file |-> file]
  ELSE [err |-> "none", file |-> YamlFile(Marshal(cfg))]

UnknownKey == "unknown config key"

\* the field Set and Get select: the first whose yaml tag equals the key, 0 if none
FieldIndex(key) ==
  LET hit == {i \in 1..Len(Fields) : Fields[i].yaml = key}
  IN  IF hit = {} THEN 0 ELSE CHOOSE i \in hit : \A j \in hit : i <= j

\* variant of Set: the field is updated in a record of defaults, not in the
\* loaded record
Set_DropsOtherFields(file, key, value, fault) ==
  LET l == Load(file, fault)
      i == FieldIndex(key)
      v == IF key = "home" THEN Abs(value) ELSE value
  IN  IF l.err # "none" THEN [err |-> l.err, file |-> file]
      ELSE IF i = 0 THEN [err |-> UnknownKey, file |-> file]
      ELSE Save(file, [defaultConfig EXCEPT ![Fields[i].name] = v], fault)

\* variant of Set: every value is made an absolute path, not only that of "home"
Set_AbsEveryKey(file, key, value, fault) ==
  LET l == Load(file, fault)
      i == FieldIndex(key)
  IN  IF l.err # "none" THEN [err |-> l.err, file |-> file]
      ELSE IF i = 0 THEN [err |-> UnknownKey, file |-> file]
      ELSE Save(file, [l.cfg EXCEPT ![Fields[i].name] = Abs(value)], fault)

\* variant of Set: the loaded record is saved before the missing key is reported
Set_SavesUnknownKey(file, key, value, fault) ==
  LET l == Load(file, fault)
      i == FieldIndex(key)
      v == IF key = "home" THEN Abs(value) ELSE value
  IN  IF l.err # "none" THEN [err |-> l.err, file |-> file]
      ELSE IF i = 0 THEN [err |-> UnknownKey, file |-> Save(file, l.cfg, fault).file]
      ELSE Save(file, [l.cfg EXCEPT ![Fields[i].name] = v], fault)

\* Set, lines 102-131
Set(file, key, value, fault) ==
  LET l == Load(file, fault)
      i == FieldIndex(key)
      v == IF key = "home" THEN Abs(value) ELSE value
  IN  IF l.err # "none" THEN [err |-> l.err, file |-> file]
      ELSE IF i = 0 THEN [err |-> UnknownKey, file |-> file]
      ELSE Save(file, [l.cfg EXCEPT ![Fields[i].name] = v], fault)

\* Get, lines 134-149
Get(file, key, fault) ==
  LET l == Load(file, fault)
      i == FieldIndex(key)
  IN  IF l.err # "none" THEN [err |-> l.err, value |-> <<>>]
      ELSE IF i = 0 THEN [err |-> UnknownKey, value |-> <<>>]
      ELSE [err |-> "none", value |-> l.cfg[Fields[i].name]]

\* parseTag, lines 219-229: the value the tag gives for a name, "" if none; a
\* later part with the same name overrides an earlier one
RECURSIVE TagLookup(_, _, _)
TagLookup(parts, name, found) ==
  IF parts = <<>> THEN found
  ELSE LET kv == SplitN2(TrimSpace(Head(parts)), <<"=">>)
       IN  IF Len(kv) = 2 /\ kv[1] = name
             THEN TagLookup(Tail(parts), name, kv[2])
           ELSE TagLookup(Tail(parts), name, found)

parseTag(tag, name) == TagLookup(Split(tag, <<",">>), name, <<>>)

DescName == <<"d","e","s","c">>
DefaultName == <<"d","e","f","a","u","l","t">>

\* Describe, lines 162-177: the line for one field
DescribeField(cfg, i) ==
  LET value == cfg[Fields[i].name]
      dflt  == parseTag(Fields[i].config, DefaultName)
  IN  [key   |-> Fields[i].yaml,
       value |-> IF TrimSpace(value) = <<>> /\ dflt # <<>> THEN dflt ELSE value,
       desc  |-> parseTag(Fields[i].config, DescName)]

\* Describe, lines 153-179
Describe(file, fault) ==
  LET l == Load(file, fault)
  IN  IF l.err # "none" THEN [err |-> l.err, out |-> <<>>]
      ELSE [err |-> "none", out |-> [i \in 1..Len(Fields) |-> DescribeField(l.cfg, i)]]

\* inputs of the derivation: a recognised or unrecognised URL prefix (or none),
\* a free-form body, and zero, one or two ".git" suffixes
BodyChars == {"a", "/", " "}
NameChars == {"a", "b"}
UrlPrefixes == {<<>>, HttpsGithub, GitAtGithub, HttpsGitlab, GitAtGitlab}
UrlSuffixes == {<<>>, GitSuffix, GitSuffix \o GitSuffix}
Names == SeqsUpTo(NameChars, MaxNameLen) \ {<<>>}
HttpsForm(org, repo) == HttpsGithub \o org \o SLASH \o repo \o GitSuffix
SSHForm(org, repo) == GitAtGithub \o org \o SLASH \o repo \o GitSuffix
DeriveInputs ==
  {p \o b \o s : p \in UrlPrefixes, b \in SeqsUpTo(BodyChars, MaxBodyLen), s \in UrlSuffixes}
    \cup {HttpsForm(o, r) : o \in Names, r \in Names}
    \cup {SSHForm(o, r) : o \in Names, r \in Names}

\* ------------------------------------------------------------------------
\* Inputs and environment of the gen command
\* ------------------------------------------------------------------------
\* most runs of the generator in one behaviour
MaxRuns == 2
\* most environment failures (I/O errors, failing external commands) in one behaviour
MaxFaults == 1

\* command-line arguments of "project gen": a module path, an HTTPS URL of the
\* same repository name, and two arguments whose normalised form has two segments
GenURLs ==
  {<<"a","/","b","/","c">>,
   <<"h","t","t","p","s",":","/","/","g","i","t","h","u","b",".","c","o","m","/","a","/","c",".","g","i","t">>,
   <<"a","/","b">>,
   <<"h","t","t","p","s",":","/","/","g","i","t","h","u","b",".","c","o","m","/","a">>}
\* values of --dir; empty means "use the repository name"
GenDirs == {<<>>, <<"o">>}
\* arguments of a direct call of Generator.GenerateAll
APIModuleURLs == {<<"a","/","b","/","c">>, <<"m">>}
APIOutDirs == {<<"o">>}

\* go.mod files found in the output directory before the first run: none, one
\* without and one with a replace block (templates/templates_test.go, lines 49-64)
PlainManifest == <<"m","o","d","u","l","e"," ","x","/","y","/","z","\n","\n","g","o"," ","1",".","2","1","\n">>
TestManifest == <<"\n","m","o","d","u","l","e"," ","x","/","y","/","z","\n","\n","g","o"," ","1",".","2","1","\n","\n","r","e","p","l","a","c","e"," ","(","\n","\t","x","/","y","/","z","/","c","o","n","f","i","g"," ","=",">"," ",".","/","c","o","n","f","i","g","\n","\t","x","/","y","/","z","/","l","o","g","s"," ","=",">"," ",".","/","l","o","g","s","\n",")","\n">>
InitialManifests == {<<>>, PlainManifest, TestManifest}

NoConfig == [ModuleURL |-> <<>>, ProjectName |-> <<>>, OutputDir |-> <<>>, HomeDir |-> <<>>]
NoOutcome == [status |-> "none", step |-> "none", cause |-> "none"]
Failed(step, cause) == [status |-> "error", step |-> step, cause |-> cause]
Succeeded == [status |-> "ok", step |-> "none", cause |-> "none"]

\* ------------------------------------------------------------------------
\* logs package (logs/logs.go)
\* ------------------------------------------------------------------------
UpperChars == <<"A","B","C","D","E","F","G","H","I","J","K","L","M","N","O","P","Q","R","S","T","U","V","W","X","Y","Z">>
LowerChars == <<"a","b","c","d","e","f","g","h","i","j","k","l","m","n","o","p","q","r","s","t","u","v","w","x","y","z">>

ToLower(c) ==
  IF \E i \in 1..Len(UpperChars) : UpperChars[i] = c
    THEN LowerChars[CHOOSE i \in 1..Len(UpperChars) : UpperChars[i] = c]
    ELSE c

\* strings.EqualFold on ASCII text
EqualFold(a, b) ==
  Len(a) = Len(b) /\ \A i \in 1..Len(a) : ToLower(a[i]) = ToLower(b[i])

Production == <<"p","r","o","d","u","c","t","i","o","n">>
Development == <<"d","e","v","e","l","o","p","m","e","n","t">>
Dev == <<"d","e","v">>
FmtText == <<"t","e","x","t">>
FmtJson == <<"j","s","o","n">>
FmtFormatted == <<"f","o","r","m","a","t","t","e","d">>

\* the nil *zap.SugaredLogger
NilLogger == [nil |-> TRUE]

\* lines 14-26: the package variables before any call, with Options.Verbose as
\* main has set it
LogsState(verbose) ==
  [logger |-> NilLogger,
   initOnce |-> FALSE,
   Options |-> [Verbose |-> verbose, ProjectName |-> <<"p","r","o","j","e","c","t">>, Environment |-> <<>>]]

\* InitLogger, lines 42-98: the function given to initOnce.Do; build is what
\* cfg.Build returned, logFmt the value of LOG_FMT
InitBody(st, env, logFmt, build) ==
  LET env2 == IF env = <<>> \/ EqualFold(env, Production) THEN Production
              ELSE IF EqualFold(env, Dev) THEN Development
              ELSE env
      format == IF logFmt # <<>> THEN logFmt
                ELSE IF env2 = Development THEN FmtText ELSE FmtJson
      cfg == [Development |-> format = FmtText,
              Encoding |-> IF format = FmtText THEN "console" ELSE "json",
              Pretty |-> format = FmtFormatted,
              Level |-> IF st.Options.Verbose \/ format = FmtText THEN "debug" ELSE "info"]
      opts == [st.Options EXCEPT !.Environment = env2]
  IN  IF build # "none"
        THEN [st EXCEPT !.Options = opts]
        ELSE [st EXCEPT !.Options = opts,
                        !.logger = [nil |-> FALSE, cfg |-> cfg, app |-> opts.ProjectName,
                                    env |-> opts.Environment]]

\* InitLogger, lines 41-99: initOnce.Do runs the body on the first call only
InitLogger(st, env, logFmt, build) ==
  IF st.initOnce THEN st
  ELSE [InitBody(st, env, logFmt, build) EXCEPT !.initOnce = TRUE]

\* Logger, lines 30-35: envVar is the value of ENV
Logger(st, envVar, logFmt, build) ==
  LET st2 == IF st.logger = NilLogger THEN InitLogger(st, envVar, logFmt, build) ELSE st
  IN  [st |-> st2, ret |-> st2.logger]

VARIABLES
  gitURL,     \* derivation: the argument given to the gen command
  derived,    \* derivation: result of deriving from gitURL
  rederived,  \* derivation: result of deriving from the derived module URL
  fs,         \* file system: path -> content
  dirs,       \* file system: directories
  pc,         \* generator: "idle" or the step GenerateAll is at
  gcfg,       \* generator: g.Config
  outcome,    \* generator: what the last gen command / GenerateAll returned
  runs,       \* generator: runs started so far
  faults,     \* environment failures so far
  caller,     \* generator: "cli" (GenCommand.Execute) or "api" (GenerateAll called directly)
  initRan,    \* generator: "go mod init" was executed in the current run
  fsAtStart,  \* file system when the current run started
  cfgFile,    \* config: the stored config file
  cfgOp,      \* config: the last operation of the config package and what it returned
  pathIn,     \* path resolver: the generator config and logical name given to filePath
  pathOut,    \* path resolver: what filePath returned
  postIn,     \* post-processing: the pieces of text the task file is made of
  postOut,    \* post-processing: the task file after each application
  logs        \* logs package: its global state and the last call made to it

dvars == <<gitURL, derived, rederived>>
gvars == <<fs, dirs, pc, gcfg, outcome, runs, caller, initRan, fsAtStart>>
cvars == <<cfgFile, cfgOp>>
pvars == <<pathIn, pathOut, postIn, postOut, logs>>
vars == <<gitURL, derived, rederived, fs, dirs, pc, gcfg, outcome, runs, faults, caller,
          initRan, fsAtStart, cfgFile, cfgOp, pathIn, pathOut, postIn, postOut, logs>>

NoOp == [op |-> "none", key |-> "", value |-> <<>>, err |-> "none", got |-> <<>>,
         out |-> <<>>, loaded |-> ZeroConfig]

ConfigIdle == cfgFile = NoFile /\ cfgOp = NoOp

EmptyFS == [p \in {} |-> <<>>]

GenIdle ==
  /\ fs = EmptyFS /\ dirs = WithAncestors(Cwd)
  /\ pc = "idle" /\ gcfg = NoConfig /\ outcome = NoOutcome
  /\ runs = 0 /\ caller = "none" /\ initRan = FALSE
  /\ fsAtStart = EmptyFS

DeriveIdle == gitURL = <<>> /\ derived = NoResult /\ rederived = NoResult

NoPath == [done |-> FALSE, path |-> <<>>]
PathOnlyIdle == pathIn = [gc |-> NoConfig, fileType |-> <<>>] /\ pathOut = NoPath

NoPost == [n |-> 0, once |-> <<>>, content |-> <<>>]
PostIdle == postIn = <<>> /\ postOut = NoPost

\* the logs package untouched
NoCall == [name |-> "none", env |-> <<>>, ret |-> NilLogger, ran |-> FALSE]
LogsIdle == logs = [pkg |-> LogsState(FALSE), last |-> NoCall, bodyRuns |-> 0]

PathIdle == PathOnlyIdle /\ PostIdle /\ LogsIdle

\* ------------------------------------------------------------------------
\* Specification of the derivation alone
\* ------------------------------------------------------------------------
DeriveInit ==
  /\ gitURL \in DeriveInputs
  /\ derived = NoResult
  /\ rederived = NoResult
  /\ GenIdle
  /\ ConfigIdle
  /\ PathIdle
  /\ faults = 0

\* one derivation of the command-line argument
Derive ==
  /\ derived.err = "none" /\ ~derived.ok
  /\ derived' = DeriveModule(gitURL)
  /\ UNCHANGED <<gitURL, rederived>>
  /\ UNCHANGED <<gvars, cvars, pvars, faults>>

\* the derived module URL given to the gen command again
Rederive ==
  /\ derived.ok
  /\ rederived.err = "none" /\ ~rederived.ok
  /\ rederived' = DeriveModule(derived.moduleURL)
  /\ UNCHANGED <<gitURL, derived>>
  /\ UNCHANGED <<gvars, cvars, pvars, faults>>

DeriveNext == Derive \/ Rederive

SpecDerive == DeriveInit /\ [][DeriveNext]_vars

\* ------------------------------------------------------------------------
\* Specification of the gen command and the generator
\* ------------------------------------------------------------------------
\* the environment may fail a step while the fault budget lasts
Faulty(f) == f # "none"
FaultChoices(S) == IF faults < MaxFaults THEN S ELSE {"none"}
Spend(f) == faults' = IF Faulty(f) THEN faults + 1 ELSE faults

GenInit ==
  /\ DeriveIdle
  /\ ConfigIdle
  /\ PathIdle
  /\ \E m \in InitialManifests :
       /\ fs = IF m = <<>> THEN EmptyFS
               ELSE WriteFile(EmptyFS, Join(<<Cwd, <<"o">>, GoMod>>), m)
       /\ dirs = IF m = <<>> THEN WithAncestors(Cwd) ELSE WithAncestors(Join(<<Cwd, <<"o">>>>))
  /\ pc = "idle" /\ gcfg = NoConfig /\ outcome = NoOutcome
  /\ runs = 0 /\ faults = 0 /\ caller = "none" /\ initRan = FALSE
  /\ fsAtStart = fs

\* GenCommand.Execute, lines 106-155, up to the first file of GenerateAll
GenCommandExecute ==
  /\ UNCHANGED <<cvars, pvars>>
  /\ pc = "idle" /\ runs < MaxRuns
  /\ \E url \in GenURLs, dir \in GenDirs, fault \in FaultChoices({"none", "mkdir"}) :
       LET moduleURL == NormalizeURL(url)
           outputDir == IF dir = <<>> THEN RepoName(moduleURL) ELSE dir
       IN  /\ gitURL' = url
           /\ runs' = runs + 1
           /\ caller' = "cli"
           /\ initRan' = FALSE
           /\ fsAtStart' = fs
           /\ fs' = fs
           /\ IF ~ValidModuleURL(moduleURL)
                THEN /\ outcome' = Failed("derive", "invalid GitHub URL format")
                     /\ faults' = faults
                     /\ UNCHANGED <<dirs, pc, gcfg>>
              ELSE IF fault = "mkdir" \/ ~MkdirAllOK(fs, dirs, outputDir)
                THEN /\ outcome' = Failed("output directory", "mkdir")
                     /\ Spend(fault)
                     /\ UNCHANGED <<dirs, pc, gcfg>>
              ELSE /\ dirs' = MkdirAll(dirs, outputDir)
                   /\ gcfg' = NewGenConfig(moduleURL, outputDir)
                   /\ outcome' = NoOutcome
                   /\ pc' = "main"
                   /\ Spend(fault)
  /\ UNCHANGED <<derived, rederived>>

\* Generator.GenerateAll called directly, line 76
GenerateAll ==
  /\ UNCHANGED <<cvars, pvars>>
  /\ pc = "idle" /\ runs < MaxRuns
  /\ \E moduleURL \in APIModuleURLs, outDir \in APIOutDirs :
       /\ gcfg' = NewGenConfig(moduleURL, outDir)
       /\ gitURL' = moduleURL
  /\ runs' = runs + 1
  /\ caller' = "api"
  /\ initRan' = FALSE
  /\ fsAtStart' = fs
  /\ outcome' = NoOutcome
  /\ pc' = "main"
  /\ UNCHANGED <<derived, rederived, fs, dirs, faults>>

\* GenerateAll, lines 81-85: position of a step in the loop over FileTypes
FileIndex(step) ==
  CASE step = "main" -> 1 [] step = "config" -> 2 [] step = "logs" -> 3
    [] step = "project" -> 4 [] step = "taskfile" -> 5

\* variant of NextStep: the loop goes from config to project
NextStep_SkipsLogs(step) ==
  CASE step = "main"     -> "config"
    [] step = "config"   -> "project"
    [] step = "logs"     -> "project"
    [] step = "project"  -> "taskfile"
    [] step = "taskfile" -> "postprocess"

\* GenerateAll, lines 81-90: the step after a file that was generated
NextStep(step) ==
  CASE step = "main"     -> "config"
    [] step = "config"   -> "logs"
    [] step = "logs"     -> "project"
    [] step = "project"  -> "taskfile"
    [] step = "taskfile" -> "postprocess"

\* GenerateAll, lines 81-85: one iteration of the loop over the file types
GenerateFileStep ==
  /\ UNCHANGED <<cvars, pvars>>
  /\ pc \in {"main", "config", "logs", "project", "taskfile"}
  /\ \E fault \in FaultChoices(FileFaults) :
       \E r \in {GenerateFile(fs, dirs, gcfg, FileTypes[FileIndex(pc)], fault)} :
           /\ fs' = r.files
           /\ dirs' = r.ds
           /\ Spend(fault)
           /\ IF r.err = "none"
                THEN pc' = NextStep(pc) /\ outcome' = outcome
                ELSE pc' = "idle" /\ outcome' = Failed(pc, r.err)
  /\ UNCHANGED <<gitURL, derived, rederived, gcfg, runs, caller, initRan, fsAtStart>>

\* GenerateAll, lines 88-90
PostProcessTaskfile ==
  /\ UNCHANGED <<cvars, pvars>>
  /\ pc = "postprocess"
  /\ \E fault \in FaultChoices({"none", "read", "write"}) :
       \E r \in {postProcessTaskfile(fs, dirs, gcfg, fault)} :
           /\ fs' = r.files
           /\ Spend(fault)
           /\ IF r.err = "none"
                THEN pc' = "initmod" /\ outcome' = outcome
                ELSE pc' = "idle" /\ outcome' = Failed("postprocess", r.err)
  /\ UNCHANGED <<gitURL, derived, rederived, dirs, gcfg, runs, caller, initRan, fsAtStart>>

\* GenerateAll, lines 93-95
RunInitMod ==
  /\ UNCHANGED <<cvars, pvars>>
  /\ pc = "initmod"
  /\ \E fault \in FaultChoices({"none", "stat", "exec"}) :
       \E r \in {InitMod(fs, dirs, gcfg, fault)} :
           /\ fs' = r.files
           /\ initRan' = r.ran
           /\ Spend(fault)
           /\ IF r.err = "none"
                THEN pc' = "replace" /\ outcome' = outcome
                ELSE pc' = "idle" /\ outcome' = Failed("initmod", r.err)
  /\ UNCHANGED <<gitURL, derived, rederived, dirs, gcfg, runs, caller, fsAtStart>>

\* GenerateAll, lines 96-98
AddReplaceDirectives ==
  /\ UNCHANGED <<cvars, pvars>>
  /\ pc = "replace"
  /\ \E fault \in FaultChoices({"none", "read", "write"}) :
       \E r \in {addReplaceDirectives(fs, dirs, gcfg, fault)} :
           /\ fs' = r.files
           /\ Spend(fault)
           /\ IF r.err = "none"
                THEN pc' = "tidy" /\ outcome' = outcome
                ELSE pc' = "idle" /\ outcome' = Failed("replace", r.err)
  /\ UNCHANGED <<gitURL, derived, rederived, dirs, gcfg, runs, caller, initRan, fsAtStart>>

\* GenerateAll, lines 99-103
RunModTidy ==
  /\ UNCHANGED <<cvars, pvars>>
  /\ pc = "tidy"
  /\ \E fault \in FaultChoices({"none", "exec"}) :
       /\ Spend(fault)
       /\ outcome' = IF ModTidy(fault) = "none" THEN Succeeded
                     ELSE Failed("tidy", ModTidy(fault))
       /\ fs' = IF ModTidy(fault) = "none" THEN TidyFiles(fs, dirs, gcfg) ELSE fs
  /\ pc' = "idle"
  /\ UNCHANGED <<gitURL, derived, rederived, dirs, gcfg, runs, caller, initRan, fsAtStart>>

GenNext ==
  \/ GenCommandExecute
  \/ GenerateAll
  \/ GenerateFileStep
  \/ PostProcessTaskfile
  \/ RunInitMod
  \/ AddReplaceDirectives
  \/ RunModTidy

SpecGen == GenInit /\ [][GenNext]_vars

\* ------------------------------------------------------------------------
\* Specification of the config package
\* ------------------------------------------------------------------------
\* keys given to Set and Get: the declared ones, a Go field name and the empty key
CfgKeys == DeclaredKeys \cup {"HomeDir", ""}
\* values given to Set: empty, a word, a YAML null form, a clean absolute path, an
\* absolute path that is not clean, a relative path with "..", a blank
CfgValues ==
  {<<>>, <<"x">>, <<"~">>, <<"/", "a">>, <<"/", "a", "/">>, <<"b", "/", ".", ".">>, <<" ">>}
\* config files found before the first operation: none, an unparsable one, an empty
\* document, documents naming some keys, an undeclared key, a null
InitialConfigFiles ==
  {NoFile, CorruptFile, YamlFile(<<>>),
   YamlFile(<<[key |-> "author", style |-> "plain", text |-> <<"m", "e">>]>>),
   YamlFile(<<[key |-> "extra", style |-> "plain", text |-> <<"x">>],
              [key |-> "log_fmt", style |-> "plain", text |-> <<"t", "e", "x", "t">>]>>),
   YamlFile(<<[key |-> "home", style |-> "plain", text |-> <<"~">>],
              [key |-> "author", style |-> "quoted", text |-> <<>>]>>)}

ConfigInit ==
  /\ DeriveIdle
  /\ GenIdle
  /\ PathIdle
  /\ faults = 0
  /\ cfgFile \in InitialConfigFiles
  /\ cfgOp = NoOp

\* config.Set(key, value)
ConfigSet ==
  /\ \E key \in CfgKeys, value \in CfgValues,
        fault \in FaultChoices({"none", "read", "mkdir", "write"}) :
       \E r \in {Set(cfgFile, key, value, fault)} :
         /\ cfgFile' = r.file
         /\ cfgOp' = [NoOp EXCEPT !.op = "set", !.key = key, !.value = value, !.err = r.err]
         /\ Spend(fault)
  /\ UNCHANGED <<dvars, gvars, pvars>>

\* config.Get(key)
ConfigGet ==
  /\ \E key \in CfgKeys, fault \in FaultChoices({"none", "read"}) :
       \E r \in {Get(cfgFile, key, fault)} :
         /\ cfgOp' = [NoOp EXCEPT !.op = "get", !.key = key, !.err = r.err, !.got = r.value]
         /\ Spend(fault)
  /\ UNCHANGED <<dvars, gvars, pvars, cfgFile>>

\* config.Describe()
ConfigDescribe ==
  /\ \E fault \in FaultChoices({"none", "read"}) :
       \E r \in {Describe(cfgFile, fault)} :
         /\ cfgOp' = [NoOp EXCEPT !.op = "describe", !.err = r.err, !.out = r.out]
         /\ Spend(fault)
  /\ UNCHANGED <<dvars, gvars, pvars, cfgFile>>

\* config.Load()
ConfigLoad ==
  /\ \E fault \in FaultChoices({"none", "read"}) :
       \E r \in {Load(cfgFile, fault)} :
         /\ cfgOp' = [NoOp EXCEPT !.op = "load", !.err = r.err, !.loaded = r.cfg]
         /\ Spend(fault)
  /\ UNCHANGED <<dvars, gvars, pvars, cfgFile>>

ConfigNext == ConfigSet \/ ConfigGet \/ ConfigDescribe \/ ConfigLoad

SpecConfig == ConfigInit /\ [][ConfigNext]_vars

\* ------------------------------------------------------------------------
\* Specification of the output path resolver alone
\* ------------------------------------------------------------------------
\* output directories as NewGenConfig receives them: relative, absolute, unclean
PathOutDirs == {<<>>, <<"o">>, <<"/","r">>, <<"o","/",".",".","/","p">>, <<"/">>}
\* project names: the final segment of a module URL
\* project names that are also names the generator uses itself
ReservedNames == {<<"c","m","d">>, <<"c","o","n","f","i","g">>, <<"l","o","g","s">>, <<"m","a","i","n">>, <<"T","a","s","k","f","i","l","e">>}
PathNames == SeqsUpTo({"a", "."}, MaxNameLen) \cup ReservedNames
\* the five logical names of GenerateAll and names outside them
OtherTypes == {<<"r","e","a","d","m","e">>, <<"M","a","i","n">>, <<>>}
LogicalNames == {FileTypes[i] : i \in 1..Len(FileTypes)} \cup OtherTypes

PathInit ==
  /\ DeriveIdle
  /\ GenIdle
  /\ ConfigIdle
  /\ faults = 0
  /\ \E dir \in PathOutDirs, name \in PathNames, l \in LogicalNames :
       pathIn = [gc |-> [ModuleURL |-> <<"m","/">> \o name, ProjectName |-> name,
                         OutputDir |-> dir, HomeDir |-> <<>>],
                 fileType |-> l]
  /\ pathOut = NoPath
  /\ PostIdle
  /\ LogsIdle

\* one call of Generator.filePath
ResolvePath ==
  /\ ~pathOut.done
  /\ pathOut' = [done |-> TRUE, path |-> filePath(pathIn.gc, pathIn.fileType)]
  /\ UNCHANGED <<dvars, gvars, cvars, faults, pathIn, postIn, postOut, logs>>

PathNext == ResolvePath

SpecPath == PathInit /\ [][PathNext]_vars

\* ------------------------------------------------------------------------
\* Specification of task-file post-processing alone
\* ------------------------------------------------------------------------
\* most pieces of text in a task file
MaxTokens == 2

\* the source-dialect references postProcessTaskfile looks for, each with the
\* text that stands for it afterwards
ReferenceTokens ==
  {[in |-> <<"{","{",".","T","a","s","k",".","G","e","t"," ","\"","V","E","R","S","I","O","N","\"","}","}">>,
    out |-> <<"{","{",".","V","E","R","S","I","O","N","}","}">>],
   [in |-> <<"{","{",".","T","a","s","k",".","G","e","t"," ","\"","C","O","M","M","I","T","\"","}","}">>,
    out |-> <<"{","{",".","C","O","M","M","I","T","}","}">>],
   [in |-> <<"{","{",".","T","a","s","k",".","G","e","t"," ","\"","B","U","I","L","D","T","I","M","E","\"","}","}">>,
    out |-> <<"{","{",".","B","U","I","L","D","T","I","M","E","}","}">>],
   [in |-> <<"{","{",".","T","a","s","k",".","G","e","t"," ","\"","M","A","I","N","\"","}","}">>,
    out |-> <<"{","{",".","M","A","I","N","}","}">>],
   [in |-> <<"{","{",".","T","a","s","k",".","G","e","t"," ","\"","C","L","I","_","A","R","G","S","\"","}","}">>,
    out |-> <<"{","{",".","C","L","I","_","A","R","G","S","}","}">>],
   [in |-> <<"{","{",".","T","a","s","k",".","G","e","t"," ","\"","O","U","T","\"","}","}">>,
    out |-> <<"{","{",".","O","U","T","}","}">>],
   [in |-> <<"{","{",".","T","a","s","k",".","G","e","t"," ","\"","L","D","F","L","A","G","S","\"","}","}">>,
    out |-> <<"{","{",".","L","D","F","L","A","G","S","}","}">>],
   [in |-> <<"{","{",".","T","a","s","k",".","G","e","t"," ","\"","A","P","P","\"","}","}">>,
    out |-> <<"{","{",".","A","P","P","}","}">>]}

\* other text of a task file, which stays as it is: a plain character, a
\* reference to a variable outside the eight, a reference in the target dialect
\* already, a reference spelled with blanks; and a reference nested in the
\* quotes of another, of which the inner one is rewritten
OtherTokens ==
  {[in |-> <<"x">>,
    out |-> <<"x">>],
   [in |-> <<"{","{",".","T","a","s","k",".","G","e","t"," ","\"","F","O","O","\"","}","}">>,
    out |-> <<"{","{",".","T","a","s","k",".","G","e","t"," ","\"","F","O","O","\"","}","}">>],
   [in |-> <<"{","{",".","O","U","T","}","}">>,
    out |-> <<"{","{",".","O","U","T","}","}">>],
   [in |-> <<"{","{",".","T","a","s","k",".","G","e","t"," ","\"","{","{",".","T","a","s","k",".","G","e","t"," ","\"","O","U","T","\"","}","}","\"","}","}">>,
    out |-> <<"{","{",".","T","a","s","k",".","G","e","t"," ","\"","{","{",".","O","U","T","}","}","\"","}","}">>],
   [in |-> <<"{","{"," ",".","T","a","s","k",".","G","e","t"," ","\"","O","U","T","\""," ","}","}">>,
    out |-> <<"{","{"," ",".","T","a","s","k",".","G","e","t"," ","\"","O","U","T","\""," ","}","}">>]}

TaskTokens == ReferenceTokens \cup OtherTokens

RECURSIVE ConcatIn(_)
ConcatIn(toks) == IF toks = <<>> THEN <<>> ELSE Head(toks).in \o ConcatIn(Tail(toks))

\* the config and file system post-processing runs in
PostConfig == NewGenConfig(<<"a","/","b","/","c">>, <<"o">>)
PostTaskfile == Join(<<ProjectPath(PostConfig), TaskfileYaml>>)
PostFS(content) == WriteFile(EmptyFS, PostTaskfile, content)
PostDirs == WithAncestors(ProjectPath(PostConfig))

PostInit ==
  /\ DeriveIdle
  /\ GenIdle
  /\ ConfigIdle
  /\ PathOnlyIdle
  /\ LogsIdle
  /\ faults = 0
  /\ postIn \in SeqsUpTo(TaskTokens, MaxTokens)
  /\ postOut = [n |-> 0, once |-> <<>>, content |-> ConcatIn(postIn)]

\* one call of Generator.postProcessTaskfile on the task file as it is now
PostProcess ==
  /\ postOut.n < 2
  /\ \E r \in {postProcessTaskfile(PostFS(postOut.content), PostDirs, PostConfig, "none")} :
       /\ r.err = "none"
       /\ postOut' = [n |-> postOut.n + 1,
                      once |-> IF postOut.n = 0 THEN r.files[PostTaskfile] ELSE postOut.once,
                      content |-> r.files[PostTaskfile]]
  /\ UNCHANGED <<dvars, gvars, cvars, faults, pathIn, pathOut, postIn, logs>>

PostNext == PostProcess

SpecPost == PostInit /\ [][PostNext]_vars

\* ------------------------------------------------------------------------
\* Specification of the logs package
\* ------------------------------------------------------------------------
\* values of the env argument and of the ENV variable
LogEnvs == {<<>>, <<"d","e","v">>, <<"D","e","v">>, <<"p","r","o","d","u","c","t","i","o","n">>, <<"s","t","a","g","i","n","g">>}
\* values of the LOG_FMT variable
LogFmts == {<<>>, <<"j","s","o","n">>, <<"f","o","r","m","a","t","t","e","d">>, <<"t","e","x","t">>, <<"x","m","l">>}

LogInit ==
  /\ DeriveIdle
  /\ GenIdle
  /\ ConfigIdle
  /\ PathOnlyIdle
  /\ PostIdle
  /\ faults = 0
  /\ \E verbose \in BOOLEAN :
       logs = [pkg |-> LogsState(verbose), last |-> NoCall, bodyRuns |-> 0]

\* what cfg.Build can return when the body of InitLogger runs
BuildChoices(runs_body) == IF runs_body THEN FaultChoices({"none", "build"}) ELSE {"none"}

\* logs.InitLogger(env)
CallInitLogger ==
  /\ \E env \in LogEnvs, logFmt \in LogFmts, build \in BuildChoices(~logs.pkg.initOnce) :
       /\ logs' = [pkg |-> InitLogger(logs.pkg, env, logFmt, build),
                   last |-> [name |-> "InitLogger", env |-> env, ret |-> NilLogger,
                             ran |-> ~logs.pkg.initOnce],
                   bodyRuns |-> logs.bodyRuns + (IF logs.pkg.initOnce THEN 0 ELSE 1)]
       /\ Spend(build)
  /\ UNCHANGED <<dvars, gvars, cvars, pathIn, pathOut, postIn, postOut>>

\* logs.Logger()
CallLogger ==
  /\ \E envVar \in LogEnvs, logFmt \in LogFmts,
        build \in BuildChoices(logs.pkg.logger = NilLogger /\ ~logs.pkg.initOnce) :
       \E r \in {Logger(logs.pkg, envVar, logFmt, build)} :
         /\ logs' = [pkg |-> r.st,
                     last |-> [name |-> "Logger", env |-> envVar, ret |-> r.ret,
                               ran |-> logs.pkg.logger = NilLogger /\ ~logs.pkg.initOnce],
                     bodyRuns |-> logs.bodyRuns +
                       (IF logs.pkg.logger = NilLogger /\ ~logs.pkg.initOnce THEN 1 ELSE 0)]
         /\ Spend(build)
  /\ UNCHANGED <<dvars, gvars, cvars, pathIn, pathOut, postIn, postOut>>

LogNext == CallInitLogger \/ CallLogger

SpecLog == LogInit /\ [][LogNext]_vars

\* ------------------------------------------------------------------------
\* Properties of the derivation
\* ------------------------------------------------------------------------
\* number of "/"-separated segments, counted from the separators
SegmentCount(s) == Cardinality({i \in 1..Len(s) : s[i] = "/"}) + 1

\* the text after the last "/"
FinalSegment(s) == SubSeq(s, LastSlash(s) + 1, Len(s))

\* the argument is neither an HTTPS nor an SSH URL: it is taken as a module path
IsModulePathInput(s) == ~HasPrefix(s, HttpsScheme) /\ ~HasPrefix(s, GitAt)

\* the argument contains no white space
NoBlank(s) == \A i \in 1..Len(s) : ~IsSpace(s[i])

Derived == derived # NoResult
Rederived == rederived # NoResult

\* C1 as claimed: every module-path input (no URL prefix, no white space) of at
\* least 3 segments derives a project name equal to the final segment of the
\* module path, and deriving again from the derived module path gives the same
\* module path and project name
C1_AsClaimed ==
  (Derived /\ IsModulePathInput(gitURL) /\ NoBlank(gitURL) /\ SegmentCount(gitURL) >= 3) =>
    /\ derived.ok
    /\ derived.projectName = FinalSegment(derived.moduleURL)
    /\ Rederived => /\ rederived.ok
                    /\ rederived.moduleURL = derived.moduleURL
                    /\ rederived.projectName = derived.projectName

\* C1 amended: a module-path input of at least 3 segments derives successfully;
\* the project name of a successful derivation is the final segment of the
\* module path without trailing white space (the final segment itself when the
\* path does not end in white space); deriving again gives the same module path
\* and project name unless the derived module path still ends in ".git"
C1_DeriveProjectName ==
  /\ (Derived /\ IsModulePathInput(gitURL) /\ SegmentCount(gitURL) >= 3) => derived.ok
  /\ derived.ok =>
       /\ SegmentCount(derived.moduleURL) >= 3
       /\ derived.projectName = TrimRightSpace(FinalSegment(derived.moduleURL))
       /\ (TrimRightSpace(derived.moduleURL) = derived.moduleURL)
            => derived.projectName = FinalSegment(derived.moduleURL)
  /\ (Rederived /\ ~HasSuffix(derived.moduleURL, GitSuffix)) =>
       /\ rederived.ok
       /\ rederived.moduleURL = derived.moduleURL
       /\ rederived.projectName = derived.projectName

\* C1 witness: a module path of three segments ending in ".git" was derived twice,
\* with the same non-empty project name, its final segment, both times
C1_Witness ==
  /\ IsModulePathInput(gitURL) /\ SegmentCount(gitURL) >= 3
  /\ HasSuffix(gitURL, GitSuffix)
  /\ derived.ok /\ rederived.ok
  /\ derived.projectName # <<>>
  /\ derived.projectName = FinalSegment(derived.moduleURL)
  /\ rederived.moduleURL = derived.moduleURL
  /\ rederived.projectName = derived.projectName

\* C2: the HTTPS form and the SSH form of github.com/<org>/<repo> both derive the
\* module path github.com/<org>/<repo> and the project name <repo>
C2_GithubForms ==
  Derived =>
    \A org \in Names, repo \in Names :
      gitURL \in {HttpsForm(org, repo), SSHForm(org, repo)} =>
        /\ derived.ok
        /\ derived.moduleURL = GithubHost \o SLASH \o org \o SLASH \o repo
        /\ derived.projectName = repo

\* C2 witness: an SSH form was derived and gave its repo as the project name
C2_Witness ==
  /\ derived.ok
  /\ \E org \in Names, repo \in Names :
       /\ gitURL = SSHForm(org, repo)
       /\ derived.moduleURL = GithubHost \o SLASH \o org \o SLASH \o repo
       /\ derived.projectName = repo

\* ------------------------------------------------------------------------
\* Properties of the config package
\* ------------------------------------------------------------------------
\* Config, lines 29-31: the description each field declares after "desc="
DeclaredDesc ==
  <<<<"B","a","s","e"," ","d","i","r","e","c","t","o","r","y"," ","f","o","r"," ","s","t","o","r","i","n","g"," ","d","a","t","a">>,
    <<"D","e","f","a","u","l","t"," ","a","u","t","h","o","r"," ","n","a","m","e"," ","f","o","r"," ","n","e","w"," ","i","t","e","m","s">>,
    <<"L","o","g"," ","o","u","t","p","u","t"," ","f","o","r","m","a","t"," ","(","j","s","o","n",","," ","f","o","r","m","a","t","t","e","d",","," ","t","e","x","t",")">>>>

\* a successful Set of a declared key followed at once by a successful Get of it
SetThenGet ==
  /\ cfgOp.op = "set" /\ cfgOp.err = "none"
  /\ cfgOp'.op = "get" /\ cfgOp'.err = "none"
  /\ cfgOp'.key = cfgOp.key

SetUndeclared == cfgOp'.op = "set" /\ cfgOp'.key \notin DeclaredKeys

\* C5 as claimed: Set of an undeclared key returns the unknown-key error and
\* leaves the stored file as it was, from any prior state (environment failures
\* during the call left aside)
C5_AsClaimed ==
  [][(SetUndeclared /\ faults' = faults) =>
       cfgOp'.err = UnknownKey /\ cfgFile' = cfgFile]_vars

\* C5 amended: Set of an undeclared key fails and leaves the stored file as it
\* was, from any prior state; the error is the unknown-key error whenever
\* loading the stored config succeeds, otherwise it is the error of Load
C5_UnknownKey ==
  [][SetUndeclared =>
       /\ cfgFile' = cfgFile
       /\ cfgOp'.err # "none"
       /\ (cfgFile.kind # "corrupt" /\ faults' = faults) => cfgOp'.err = UnknownKey
       /\ (cfgFile.kind = "corrupt" /\ faults' = faults)
            => cfgOp'.err = "failed to parse config"]_vars

\* C5 witness: Set of an undeclared key has returned the unknown-key error while
\* no config file exists
C5_Witness ==
  /\ cfgOp.op = "set" /\ cfgOp.key \notin DeclaredKeys
  /\ cfgOp.err = UnknownKey
  /\ cfgFile = NoFile

\* C6: Describe with no stored file returns, in declaration order, every field's
\* default value paired with the description the field declares
C6_DescribeDefaults ==
  (cfgOp.op = "describe" /\ cfgOp.err = "none" /\ cfgFile = NoFile) =>
    cfgOp.out = [i \in 1..Len(Fields) |->
                   [key   |-> Fields[i].yaml,
                    value |-> defaultConfig[Fields[i].name],
                    desc  |-> DeclaredDesc[i]]]

\* the keys a stored document gives a string value
ValuedKeys(file) ==
  {file.entries[i].key : i \in {j \in 1..Len(file.entries) : ~IsNull(file.entries[j])}}

\* the string value a stored document gives a key
FileValue(file, key) ==
  file.entries[CHOOSE i \in 1..Len(file.entries) :
                 file.entries[i].key = key /\ ~IsNull(file.entries[i])].text

\* C7: Load succeeds without a file and returns the defaults; with a file every
\* field whose key the file gives a value has that value, every other field has
\* its default (a key whose value is the YAML null has no value to take), and
\* keys no field declares have no effect
C7_LoadOverlay ==
  (cfgOp.op = "load" /\ cfgOp.err # "failed to read config") =>
    /\ cfgFile.kind = "absent" => cfgOp.err = "none" /\ cfgOp.loaded = defaultConfig
    /\ cfgFile.kind = "yaml" =>
         /\ cfgOp.err = "none"
         /\ DOMAIN cfgOp.loaded = {Fields[i].name : i \in 1..Len(Fields)}
         /\ \A i \in 1..Len(Fields) :
              cfgOp.loaded[Fields[i].name] =
                IF Fields[i].yaml \in ValuedKeys(cfgFile)
                  THEN FileValue(cfgFile, Fields[i].yaml)
                  ELSE defaultConfig[Fields[i].name]

\* C7 witness: a file with an undeclared key and log_fmt was loaded; log_fmt came
\* from the file, home and author from the defaults
C7_Witness ==
  /\ cfgOp.op = "load" /\ cfgOp.err = "none"
  /\ cfgFile.kind = "yaml"
  /\ "extra" \in ValuedKeys(cfgFile)
  /\ cfgOp.loaded.LogFmt = <<"t", "e", "x", "t">>
  /\ cfgOp.loaded.HomeDir = defaultConfig.HomeDir
  /\ cfgOp.loaded.Author = defaultConfig.Author

\* ------------------------------------------------------------------------
\* Properties of the gen command and the generator
\* ------------------------------------------------------------------------
InvalidURL == "invalid GitHub URL format"

\* a step of GenCommand.Execute
ExecuteStep == pc = "idle" /\ runs' = runs + 1 /\ caller' = "cli"

\* C3: the gen command fails with the invalid-URL error exactly when the
\* normalised argument has fewer than 3 segments, and then it has created no
\* directory and written no file
C3_InvalidURL ==
  [][ExecuteStep =>
       /\ (outcome'.cause = InvalidURL) <=> (SegmentCount(NormalizeURL(gitURL')) < 3)
       /\ (outcome'.cause = InvalidURL) =>
            /\ outcome'.status = "error"
            /\ fs' = fs /\ dirs' = dirs /\ pc' = "idle"]_vars

\* C3 witness: the gen command has returned the invalid-URL error for an argument
\* of four segments whose normalised form has two, and the file system is as before
C3_Witness ==
  /\ caller = "cli" /\ pc = "idle"
  /\ outcome.status = "error" /\ outcome.cause = InvalidURL
  /\ SegmentCount(gitURL) = 4
  /\ fs = fsAtStart

\* ------------------------------------------------------------------------
\* Output path resolver
\* ------------------------------------------------------------------------
\* the destination of logical name l below the project root, for project name
\* pn, as the table of destinations gives it
Destination(pn, l) ==
  CASE l = MainType     -> <<"c","m","d","/">> \o pn \o <<"/","m","a","i","n",".","g","o">>
    [] l = ConfigType   -> <<"c","o","n","f","i","g","/","c","o","n","f","i","g",".","g","o">>
    [] l = LogsType     -> <<"l","o","g","s","/","l","o","g","s",".","g","o">>
    [] l = TaskfileType -> <<"T","a","s","k","f","i","l","e",".","y","a","m","l">>
    [] l = ProjectType  -> pn \o <<".","g","o">>
    [] OTHER            -> l \o <<".","g","o">>

\* the path root/rel as the file system reads it
Under(root, rel) == Clean(root \o SLASH \o rel)

\* a name that is one plain path segment
PlainName(n) == n # <<>> /\ n # <<".">> /\ n # <<".", ".">> /\ ~Contains(n, SLASH)

\* C8: filePath returns, for every project root R, project name P and logical
\* name, one path and no error: R/cmd/P/main.go for main, R/config/config.go
\* for config, R/logs/logs.go for logs, R/Taskfile.yaml for taskfile, R/P.go
\* for project and R/L.go for every other logical name L
C8_PathResolver ==
  pathOut.done =>
    pathOut.path = Under(ProjectPath(pathIn.gc),
                         Destination(pathIn.gc.ProjectName, pathIn.fileType))

\* C8 witness: a logical name outside the five has been resolved for a plain
\* project name, and its destination is literally R/L.go
C8_Witness ==
  /\ pathOut.done
  /\ pathIn.fileType = <<"r","e","a","d","m","e">>
  /\ PlainName(pathIn.gc.ProjectName)
  /\ pathIn.gc.OutputDir = <<"o">>
  /\ pathOut.path = <<"/","w","/","o","/","r","e","a","d","m","e",".","g","o">>

\* ------------------------------------------------------------------------
\* Generation runs
\* ------------------------------------------------------------------------
\* the files below directory root
FilesUnder(files, root) == {p \in DOMAIN files : HasPrefix(p, root \o SLASH)}

\* the five destinations of the table for the current generator config
FiveFiles ==
  {Under(ProjectPath(gcfg), Destination(gcfg.ProjectName, FileTypes[i])) : i \in 1..Len(FileTypes)}

\* the module files "go mod init" and "go mod tidy" leave in the project root
ModuleFiles == {Under(ProjectPath(gcfg), GoMod), Under(ProjectPath(gcfg), GoSum)}

\* GenerateAll has returned nil for a project root that held no file when it started
SucceededOnEmptyDir ==
  /\ pc = "idle" /\ outcome = Succeeded
  /\ FilesUnder(fsAtStart, ProjectPath(gcfg)) = {}

EachHoldsProjectName ==
  \A p \in FiveFiles : p \in DOMAIN fs /\ Contains(fs[p], gcfg.ProjectName)

\* C9 as claimed: a successful run on an empty directory leaves exactly the
\* five files of the table there, each containing the project name
C9_AsClaimed ==
  SucceededOnEmptyDir =>
    /\ FilesUnder(fs, ProjectPath(gcfg)) = FiveFiles
    /\ Cardinality(FiveFiles) = 5
    /\ EachHoldsProjectName

\* C9: a successful run on an empty directory leaves the five files of the
\* table there, each containing the project name, and besides them the
\* manifest go.mod and the checksum file go.sum, nothing else
C9_GenerateAll ==
  SucceededOnEmptyDir =>
    /\ FiveFiles \subseteq FilesUnder(fs, ProjectPath(gcfg))
    /\ Cardinality(FiveFiles) = 5
    /\ EachHoldsProjectName
    /\ FilesUnder(fs, ProjectPath(gcfg)) \ FiveFiles = ModuleFiles

\* C9 witness: GenerateAll, called directly, has succeeded on an empty
\* directory and the five files, go.mod and go.sum are there
C9_Witness ==
  /\ SucceededOnEmptyDir
  /\ caller = "api"
  /\ gcfg.ProjectName # <<>>
  /\ FilesUnder(fs, ProjectPath(gcfg)) = FiveFiles \cup ModuleFiles
  /\ Cardinality(FilesUnder(fs, ProjectPath(gcfg))) = 7

\* what GenerateFile renders for a logical name under the current config
Rendered(l) == Execute(TemplateOf(l), gcfg)

ManifestExists == Join(<<ProjectPath(gcfg), GoMod>>) \in DOMAIN fs

\* C10: when the manifest exists the manifest-init step runs no "go mod init",
\* changes no file and does not fail (unless the existence check itself
\* errors), and when a run succeeds every template file holds what that run
\* rendered, whatever the file held before
C10_SecondRun ==
  [][/\ (pc = "initmod" /\ ManifestExists) =>
          /\ ~initRan' /\ fs' = fs
          /\ pc' = "replace" \/ outcome'.cause = "check for go.mod"
     /\ (pc = "tidy" /\ outcome' = Succeeded) =>
          \A i \in 1..Len(FileTypes) :
            /\ filePath(gcfg, FileTypes[i]) \in DOMAIN fs'
            /\ fs'[filePath(gcfg, FileTypes[i])] = Rendered(FileTypes[i])]_vars

\* C10 witness: a second run has succeeded in a directory where the first
\* had left the manifest and a main file of different content; init was
\* skipped and the main file holds the second run's rendering
C10_Witness ==
  /\ runs = 2 /\ pc = "idle" /\ outcome = Succeeded
  /\ ~initRan
  /\ Join(<<ProjectPath(gcfg), GoMod>>) \in DOMAIN fsAtStart
  /\ filePath(gcfg, MainType) \in DOMAIN fsAtStart
  /\ fsAtStart[filePath(gcfg, MainType)] # Rendered(MainType)
  /\ fs[filePath(gcfg, MainType)] = Rendered(MainType)

\* ------------------------------------------------------------------------
\* Abort on the first failing file
\* ------------------------------------------------------------------------
FileSteps == {"main", "config", "logs", "project", "taskfile"}

\* path p holds now what it held when the current run started
Untouched(p) ==
  /\ (p \in DOMAIN fs) <=> (p \in DOMAIN fsAtStart)
  /\ p \in DOMAIN fs => fs[p] = fsAtStart[p]

\* the current run has returned the error of a file's generation
FailedAtFile == pc = "idle" /\ outcome.status = "error" /\ outcome.step \in FileSteps

\* C11: when GenerateAll returns the error of a file's generation, the error
\* names that file and carries a cause, every file before it in the order main,
\* config, logs, project, taskfile holds its rendering, and that file, every
\* later file, the manifest and the checksum file are as they were when the
\* run started: nothing later was rendered or written, and neither
\* post-processing nor module bootstrap has run
C11_FirstFailure ==
  FailedAtFile =>
    /\ outcome.cause \in {"read template", "execute template", "mkdir", "write file"}
    /\ \A i \in 1..Len(FileTypes) :
         IF i < FileIndex(outcome.step)
           THEN /\ filePath(gcfg, FileTypes[i]) \in DOMAIN fs
                /\ fs[filePath(gcfg, FileTypes[i])] = Rendered(FileTypes[i])
           ELSE Untouched(filePath(gcfg, FileTypes[i]))
    /\ Untouched(Join(<<ProjectPath(gcfg), GoMod>>))
    /\ Untouched(Join(<<ProjectPath(gcfg), GoSum>>))
    /\ ~initRan

\* C11 witness: the run failed at logs in an empty directory; main and config
\* are written, project and the task file are not there
C11_Witness ==
  /\ FailedAtFile /\ outcome.step = "logs"
  /\ FilesUnder(fsAtStart, ProjectPath(gcfg)) = {}
  /\ FilesUnder(fs, ProjectPath(gcfg)) =
       {filePath(gcfg, MainType), filePath(gcfg, ConfigType)}

\* ------------------------------------------------------------------------
\* The replace block of the manifest
\* ------------------------------------------------------------------------
\* number of occurrences of sub in s, counted from position i
RECURSIVE CountFrom(_, _, _)
CountFrom(s, sub, i) ==
  LET j == IndexFrom(s, sub, i)
  IN  IF j = 0 THEN 0 ELSE 1 + CountFrom(s, sub, j + Len(sub))

CountOf(s, sub) == CountFrom(s, sub, 1)

ManifestPath == Join(<<ProjectPath(gcfg), GoMod>>)

\* the module URLs the runs of the model generate for
KnownModules ==
  {NormalizeURL(u) : u \in {v \in GenURLs : ValidModuleURL(NormalizeURL(v))}}
    \cup APIModuleURLs

\* C12: the injection step leaves a manifest that contains the block as it is
\* and appends the block to one without a replace block; after every
\* successful run the manifest holds exactly one replace block, which is the
\* block injected for one of the generated modules, once, unless the
\* directory came with a manifest that had a replace block of its own
C12_InjectionIdempotent ==
  [][/\ (pc = "replace" /\ pc' = "tidy") =>
          /\ Contains(fs[ManifestPath], ReplaceBlock(gcfg.ModuleURL))
               => fs'[ManifestPath] = fs[ManifestPath]
          /\ ~Contains(fs[ManifestPath], ReplaceOpen)
               => fs'[ManifestPath] = fs[ManifestPath] \o ReplaceBlock(gcfg.ModuleURL)
          /\ CountOf(fs'[ManifestPath], ReplaceBlock(gcfg.ModuleURL)) <= 1
     /\ (pc = "tidy" /\ outcome' = Succeeded) =>
          /\ CountOf(fs'[ManifestPath], ReplaceOpen) = 1
          /\ \/ fs'[ManifestPath] = TestManifest
             \/ \E u \in KnownModules : CountOf(fs'[ManifestPath], ReplaceBlock(u)) = 1]_vars

\* C12 witness: a second run has succeeded on a directory whose manifest held
\* the block of this module already; the manifest is as it was and holds the
\* block once
C12_Witness ==
  /\ runs = 2 /\ pc = "idle" /\ outcome = Succeeded
  /\ ManifestPath \in DOMAIN fsAtStart
  /\ Contains(fsAtStart[ManifestPath], ReplaceBlock(gcfg.ModuleURL))
  /\ fs[ManifestPath] = fsAtStart[ManifestPath]
  /\ CountOf(fs[ManifestPath], ReplaceBlock(gcfg.ModuleURL)) = 1

\* the path-redirection entries of module m
ConfigEntry(m) == m \o <<"/","c","o","n","f","i","g"," ","=",">"," ",".","/","c","o","n","f","i","g">>
LogsEntry(m) == m \o <<"/","l","o","g","s"," ","=",">"," ",".","/","l","o","g","s">>

\* C13: after every successful GenerateAll the manifest of the project root
\* contains the entries <module>/config => ./config and <module>/logs => ./logs
\* of the module generated for, whatever the manifest held before the run
C13_RedirectionEntries ==
  (pc = "idle" /\ outcome = Succeeded) =>
    /\ ManifestPath \in DOMAIN fs
    /\ Contains(fs[ManifestPath], ConfigEntry(gcfg.ModuleURL))
    /\ Contains(fs[ManifestPath], LogsEntry(gcfg.ModuleURL))

\* ------------------------------------------------------------------------
\* The generator config
\* ------------------------------------------------------------------------
\* a module path of non-empty segments without white space
WellFormedModule(m) ==
  /\ m # <<>> /\ NoBlank(m)
  /\ \A i \in 1..Len(Split(m, SLASH)) : Split(m, SLASH)[i] # <<>>

ConfigBuilt == gcfg # NoConfig

\* the name and home directory of a config built from a well-formed module path
NameIsLastSegment ==
  (ConfigBuilt /\ WellFormedModule(gcfg.ModuleURL)) =>
    /\ gcfg.ProjectName # <<>>
    /\ gcfg.ProjectName = FinalSegment(gcfg.ModuleURL)
    /\ gcfg.HomeDir = <<"~", "/">> \o gcfg.ProjectName

\* C14: a config built from a non-empty, well-formed module path has as
\* project name the non-empty last segment of the path and "~/" + name as home
\* directory, and no generation for a module path of fewer than 3 segments
\* succeeds
C14_ConfigInvariant ==
  /\ NameIsLastSegment
  /\ (ConfigBuilt /\ pc = "idle" /\ outcome = Succeeded)
       => SegmentCount(gcfg.ModuleURL) >= 3

\* ------------------------------------------------------------------------
\* Describe over every stored config
\* ------------------------------------------------------------------------
\* Config, lines 29-31: the default each field declares after "default=" (none
\* for author)
DeclaredDefault == <<<<"~","/","m","y","a","p","p">>, <<>>, <<"j","s","o","n">>>>

\* the current value of field i: what Load gives for the stored config
CurrentValue(i) == Load(cfgFile, "none").cfg[Fields[i].name]

\* C15: from every stored config that loads, Describe returns one entry per
\* declared field in declaration order, each with the field's key, its
\* declared description, and its current value, or its declared default when
\* the current value is empty
C15_DescribeEntries ==
  (cfgOp.op = "describe" /\ cfgOp.err = "none") =>
    /\ Len(cfgOp.out) = Len(Fields)
    /\ \A i \in 1..Len(Fields) :
         /\ cfgOp.out[i].key = Fields[i].yaml
         /\ cfgOp.out[i].desc = DeclaredDesc[i]
         /\ cfgOp.out[i].value =
              IF CurrentValue(i) = <<>> THEN DeclaredDefault[i] ELSE CurrentValue(i)

\* ------------------------------------------------------------------------
\* Module bootstrap
\* ------------------------------------------------------------------------
AllFilesWritten(files) ==
  \A i \in 1..Len(FileTypes) : filePath(gcfg, FileTypes[i]) \in DOMAIN files

\* the step met a failure of the environment
FaultMet == faults' > faults

\* C16: manifest init starts only from task-file post-processing, with all five
\* files written; directive injection only from a manifest init that returned
\* nil, which ran "go mod init" exactly when no manifest existed; dependency
\* resolution only from an injection that returned nil; GenerateAll returns
\* nil only from dependency resolution; and a failing "go mod init" or
\* "go mod tidy" ends the run with the error of that step
C16_BootstrapOrder ==
  [][/\ (pc' = "initmod" /\ pc # "initmod") =>
          pc = "postprocess" /\ AllFilesWritten(fs')
     /\ (pc' = "replace" /\ pc # "replace") =>
          /\ pc = "initmod"
          /\ initRan' = ~ManifestExists
          /\ ManifestPath \in DOMAIN fs'
     /\ (pc' = "tidy" /\ pc # "tidy") => pc = "replace"
     /\ (outcome' = Succeeded /\ pc # "idle") => pc = "tidy"
     /\ (pc \in {"initmod", "replace", "tidy"} /\ pc' = "idle" /\ outcome' # Succeeded) =>
          /\ outcome'.status = "error" /\ outcome'.step = pc
          /\ pc \in {"initmod", "tidy"} => fs' = fs
     /\ (pc = "initmod" /\ ~ManifestExists /\ FaultMet) =>
          pc' = "idle" /\ outcome'.status = "error" /\ outcome'.step = "initmod"
     /\ (pc = "tidy" /\ FaultMet) =>
          pc' = "idle" /\ outcome'.status = "error" /\ outcome'.step = "tidy"]_vars

\* C16 witness: all steps up to dependency resolution succeeded on an empty
\* directory, "go mod init" ran, the block is in the manifest, and "go mod
\* tidy" failed: the run ended with that error
C16_Witness ==
  /\ pc = "idle" /\ outcome.status = "error" /\ outcome.step = "tidy"
  /\ FilesUnder(fsAtStart, ProjectPath(gcfg)) = {}
  /\ initRan
  /\ AllFilesWritten(fs)
  /\ Contains(fs[ManifestPath], ReplaceBlock(gcfg.ModuleURL))

\* ------------------------------------------------------------------------
\* No rollback
\* ------------------------------------------------------------------------
\* position of a step in GenerateAll
StepNo(step) ==
  CASE step \in FileSteps -> FileIndex(step)
    [] step = "postprocess" -> 6
    [] step = "initmod" -> 7
    [] step = "replace" -> 8
    [] step = "tidy" -> 9

\* the step ends the run with an error
Aborts == pc # "idle" /\ pc' = "idle" /\ outcome'.status = "error"

\* C17: the step at which GenerateAll aborts leaves every file as the earlier
\* steps left it: each file generated before it holds this run's rendering,
\* a manifest that was there before injection or dependency resolution is
\* still there, and no step of a run removes a file
C17_NoRollback ==
  [][/\ Aborts =>
          /\ fs' = fs
          /\ \A i \in 1..Len(FileTypes) :
               i < StepNo(pc) =>
                 /\ filePath(gcfg, FileTypes[i]) \in DOMAIN fs'
                 /\ fs'[filePath(gcfg, FileTypes[i])] = Rendered(FileTypes[i])
          /\ StepNo(pc) >= 8 => ManifestPath \in DOMAIN fs'
     /\ DOMAIN fs \subseteq DOMAIN fs'
     /\ dirs \subseteq dirs']_vars

\* C17 witness: a second run over the files of a first run aborted at
\* dependency resolution; the main file holds the second run's rendering,
\* which differs from what the run found there
C17_Witness ==
  /\ runs = 2 /\ pc = "idle" /\ outcome.status = "error" /\ outcome.step = "tidy"
  /\ filePath(gcfg, MainType) \in DOMAIN fsAtStart
  /\ fs[filePath(gcfg, MainType)] = Rendered(MainType)
  /\ fs[filePath(gcfg, MainType)] # fsAtStart[filePath(gcfg, MainType)]

\* ------------------------------------------------------------------------
\* What Set persists
\* ------------------------------------------------------------------------
\* a Set of a declared key that returned nil
SetDeclaredOK ==
  cfgOp'.op = "set" /\ cfgOp'.err = "none" /\ cfgOp'.key \in DeclaredKeys

\* the record a stored config loads as
Stored(file) == Load(file, "none").cfg

SetField == Fields[FieldIndex(cfgOp'.key)].name

RECURSIVE ConcatOut(_)
ConcatOut(toks) == IF toks = <<>> THEN <<>> ELSE Head(toks).out \o ConcatOut(Tail(toks))

\* C19: post-processing rewrites every occurrence of each of the eight
\* references {{.Task.Get "X"}} to {{.X}} and leaves all other text as it is;
\* its result contains none of the eight references, and applying it a second
\* time gives the same content
C19_PostProcess ==
  /\ postOut.n >= 1 =>
       /\ postOut.once = ConcatOut(postIn)
       /\ \A i \in 1..Len(Replacements) : ~Contains(postOut.once, Replacements[i].old)
  /\ postOut.n = 2 => postOut.content = postOut.once

\* C19 witness: a task file with the same reference twice has been
\* post-processed twice; both occurrences are rewritten and the second
\* application changed nothing
C19_Witness ==
  /\ postOut.n = 2
  /\ Len(postIn) = 2 /\ postIn[1] = postIn[2] /\ postIn[1] \in ReferenceTokens
  /\ postOut.content = postIn[1].out \o postIn[1].out
  /\ postOut.content # ConcatIn(postIn)

\* ------------------------------------------------------------------------
\* The three normalisation rules
\* ------------------------------------------------------------------------
\* s without its first n characters
Drop(s, n) == SubSeq(s, n + 1, Len(s))

\* the rule that applies to an argument
RuleOf(g) ==
  IF Len(g) >= Len(HttpsGithub) /\ SubSeq(g, 1, Len(HttpsGithub)) = HttpsGithub THEN "https"
  ELSE IF Len(g) >= Len(GitAtGithub) /\ SubSeq(g, 1, Len(GitAtGithub)) = GitAtGithub THEN "ssh"
  ELSE "literal"

\* the module path the three rules give before ".git" is looked at: the
\* argument without "https://", or github.com/ followed by what comes after
\* "git@github.com:", or the argument itself
RuleResult(g) ==
  CASE RuleOf(g) = "https"   -> Drop(g, Len(HttpsScheme))
    [] RuleOf(g) = "ssh"     -> GithubHost \o SLASH \o Drop(g, Len(GitAtGithub))
    [] RuleOf(g) = "literal" -> g

\* one trailing ".git" removed
WithoutOneGit(m) ==
  IF Len(m) >= 4 /\ SubSeq(m, Len(m) - 3, Len(m)) = GitSuffix
    THEN SubSeq(m, 1, Len(m) - 4) ELSE m

\* C20: the module path is the result of the one rule that applies to the
\* argument (https://github.com/ prefix, git@github.com: prefix, anything
\* else literally) with one trailing ".git" removed, and the segment count
\* is checked on that path
C20_NormalisationRules ==
  Derived =>
    /\ derived.ok <=> SegmentCount(WithoutOneGit(RuleResult(gitURL))) >= 3
    /\ derived.ok => derived.moduleURL = WithoutOneGit(RuleResult(gitURL))
    /\ ~derived.ok => derived.err = InvalidURL

\* C20 witness: an https URL of another host ending in ".git.git" was derived;
\* the module path is the argument, scheme included, less one ".git"
C20_Witness ==
  /\ Derived /\ derived.ok
  /\ HasPrefix(gitURL, HttpsGitlab)
  /\ HasSuffix(gitURL, GitSuffix \o GitSuffix)
  /\ derived.moduleURL \o GitSuffix = gitURL

\* ------------------------------------------------------------------------
\* Rendering comes before every change to the file system
\* ------------------------------------------------------------------------
\* the errors of readTemplate and of executing the template
RenderCauses == {"read template", "execute template"}

\* C21: a GenerateFile call that returns the error of reading, parsing or
\* executing its template has created no directory and written or modified
\* no file
C21_RenderBeforeWrite ==
  [][(pc \in FileSteps /\ outcome'.status = "error" /\ outcome'.cause \in RenderCauses)
       => (fs' = fs /\ dirs' = dirs /\ pc' = "idle" /\ outcome'.step = pc)]_vars

\* C21 witness: the first file of a run failed in executing its template and
\* the directory it would have been written to does not exist
C21_Witness ==
  /\ FailedAtFile /\ outcome.step = "main" /\ outcome.cause = "execute template"
  /\ Dir(filePath(gcfg, MainType)) \notin dirs
  /\ filePath(gcfg, MainType) \notin DOMAIN fs

\* ------------------------------------------------------------------------
\* Set changes one key only
\* ------------------------------------------------------------------------
\* the config package driven by Set alone: Get, Describe and Load write
\* nothing, so the stored files reached are those of SpecConfig
SetNext == ConfigSet

SpecSet == ConfigInit /\ [][SetNext]_vars

\* the declared keys a Set of the key k leaves alone
OtherKeys(k) == DeclaredKeys \ {k}

\* C22: after a Set of a declared key that returned nil, Get of every other
\* declared key returns what it returned before the Set, whatever was stored
\* before, no file included
C22_SetFrame ==
  [][SetDeclaredOK =>
       \A k \in OtherKeys(cfgOp'.key) :
         \E after \in {Get(cfgFile', k, "none")} :
           after.err = "none" /\ after = Get(cfgFile, k, "none")]_vars

\* C22 witness: Set("home", "x") returned nil on a file that held an empty
\* author and a null home; author still reads as empty and log_fmt as its
\* default
C22_Witness ==
  /\ cfgOp.op = "set" /\ cfgOp.err = "none"
  /\ cfgOp.key = "home" /\ cfgOp.value = <<"x">>
  /\ Get(cfgFile, "author", "none").value = <<>>
  /\ Get(cfgFile, "log_fmt", "none").value = defaultConfig.LogFmt
  /\ Get(cfgFile, "home", "none").value = Join(<<Cwd, <<"x">>>>)

\* ------------------------------------------------------------------------
\* The global logger
\* ------------------------------------------------------------------------
\* the last call was a Logger() call made after InitLogger had been called
\* (the body of InitLogger did not run within it)
LoggerAfterInit == logs.last.name = "Logger" /\ ~logs.last.ran

\* C23 (first part): once InitLogger has been called, every later Logger() call
\* returns a logger that is not nil, also when building the logger failed
C23_LoggerNonNil == LoggerAfterInit => logs.last.ret # NilLogger

\* C23 (second part): the body of InitLogger runs at most once, and once it
\* has run no call changes the logger or the options
C23_InitOnce ==
  /\ [][logs.pkg.initOnce => logs'.pkg = logs.pkg /\ logs'.bodyRuns = logs.bodyRuns]_vars
  /\ [](logs.bodyRuns <= 1 /\ (logs.pkg.initOnce <=> logs.bodyRuns = 1))

\* ------------------------------------------------------------------------
\* The five destinations are distinct
\* ------------------------------------------------------------------------
\* one of the five logical files of GenerateAll has been resolved for a
\* project name that is a single path segment
ResolvedOneOfFive ==
  /\ pathOut.done
  /\ \E i \in 1..Len(FileTypes) : pathIn.fileType = FileTypes[i]
  /\ ~Contains(pathIn.gc.ProjectName, SLASH)

\* C24: for every project root and every project name of one path segment,
\* the destination of each of the five logical files differs from the
\* destinations of the other four
C24_DistinctDestinations ==
  ResolvedOneOfFive =>
    \A i \in 1..Len(FileTypes) :
      FileTypes[i] # pathIn.fileType => filePath(pathIn.gc, FileTypes[i]) # pathOut.path

\* C24 witness: the project file of a project named config has been resolved;
\* it lies beside the config directory, whose file keeps its own destination
C24_Witness ==
  /\ ResolvedOneOfFive
  /\ pathIn.fileType = ProjectType
  /\ pathIn.gc.ProjectName = ConfigDir
  /\ pathIn.gc.OutputDir = <<"o">>
  /\ pathOut.path = <<"/","w","/","o","/","c","o","n","f","i","g",".","g","o">>

\* ------------------------------------------------------------------------
\* Repository name and project name
\* ------------------------------------------------------------------------
\* C25: for every input the gen command accepts, the repository name it
\* derives (the default output directory) equals the project name NewGenConfig
\* derives from the same module path
C25_RepoNameIsProjectName ==
  (Derived /\ derived.ok) => derived.repoName = derived.projectName

====
